---------------------------- MODULE Spec2Model ----------------------------
(***************************************************************************)
(* Verification model of the reportbro-lib layout engine.                  *)
(*                                                                         *)
(* Spec       Container pagination (containers.py, docelement.py and the   *)
(*            text and line elements of elements.py): prepare,             *)
(*            create_render_elements once per page, reset.                 *)
(*                                                                         *)
(* Arguments are bound by name: get_next_render_element receives offset_y, *)
(* container_top and container_height as the bodies use them.              *)
(* Lengths are integers; the element sets keep every halved length even.   *)
(***************************************************************************)
EXTENDS Integers, Sequences, FiniteSets, TLC

VARIABLES
    elems,       \* doc_elements of the container: id -> element object
    container,   \* the fields of the Container object
    pc,          \* position of the driver: "new", "ready", "done", "error"
    error,       \* message key of the raised ReportBroError, "" if none
    calls,       \* create_render_elements calls of the current pass
    pass,        \* number of the current rendering pass (1 = first)
    lastCall,    \* what the last create_render_elements call did, element by element
    pageLog,     \* render slices of the current pass, one sequence per call
    firstLog,    \* pageLog of the completed first pass
    \* a table that is the only element of a content band
    table,       \* the fields of the TableElement object, its bands and their cells
    theight,     \* available height of the content band
    tpc,         \* position of the driver: "new", "ready", "done", "error"
    terror,      \* message key of the raised ReportBroError, "" if none
    tcalls,      \* get_next_render_element calls of the current pass
    tpass,       \* number of the current rendering pass (1 = first)
    tlog,        \* render elements of the current pass, one per call (NoSlice for None)
    \* the cells of one table band
    cband,       \* the fields of the TableBandElement object and its cells
    cparams,     \* the rows of the table: per row the parameters of its context
    cpc,         \* "new", "prepared" after set_printed_cells, "filled", "error"
    cpass,       \* number of prepare calls
    cshown,      \* the row last filled in and the result of fill_parameters for every printed cell
    \* the substitution of parameter references in a text
    fin,         \* the inputs: expr, pattern, the parameter x, locale and currency symbol
    fpc,         \* "new", "done", "error"
    fout,        \* the returned string (a sequence of characters) and the raised error
    \* the PDF renderer and its content band
    relems,      \* doc_elements of the content band: id -> element object
    rband,       \* the fields of the content band (a Container)
    rlimit,      \* page_limit, 0 for no limit
    rpage_count, \* page_count of render
    rpc,         \* "new", "loop", "rendered", "output", "error", "internal_error"
    rcalls,      \* create_render_elements calls on the content band
    rlast,       \* what the last call returned: "none", "complete", "incomplete", "error"
    rpages,      \* the pages of the output pass: the render elements drawn on each page
    rcleaned,    \* the render elements whose cleanup has run, in the order of the calls
    \* a Context and its stack of frames
    xstack,      \* context_stack: frames of parameters, data (a reference to a data map), data_source
    xdata,       \* the data maps: reference -> the value of __context_id, 0 without one
    xid,         \* Context.id
    xlog,        \* the push_context calls in their order: the id assigned and the data map
    xlast,       \* the last call: its name, the error it raised, for pop_context the stack before it
    xfound,      \* what get_parameter returned when it was the last call: the name and the result
    xroot,       \* the frame created at construction
    \* an expression and the Context it is evaluated in
    ein,         \* the input: the expression and the stack of frames
    epc,         \* "new", "replaced" after replace_parameters, "done" / "error" after evaluate_expression
    eout,        \* what the call returned
    \* aggregate parameters and the row ranges of the arrays they aggregate
    gparams,     \* the Parameter objects by name, each with its range_stack
    gdata,       \* the data map of the root frame
    grange_count,\* Context.range_count
    gout,        \* what get_parameter_data returned when it was the last call
    \* a Report built from a report definition
    pdef,        \* the report definition: parameter names, the element of the content band
    perrors,     \* Report.errors
    ppc,         \* "new", "built", then "pdf" / "xlsx" or the error the renderer raised
    pdoc,        \* the document that was produced: "none", "pdf", "xlsx"
    \* two Reports built from one report definition and one data map
    wdef,        \* the definition and the data: a date parameter d and a text with ${d}
    wclock,      \* the current time: day and minute
    wreports,    \* the two Reports: stage, time of construction, data, output
    \* one text element that is rendered page by page
    lelem,       \* the fields of the TextElement object
    lpc,         \* "new", "ready", "done", "error"
    lcalls,      \* get_next_render_element calls since prepare
    llog,        \* per call: the progress fields before it and what it returned
    \* one band of a table or of a section, rendered call by call
    bband,       \* the fields of the band object, its cells or elements and its container
    bpc,         \* "ready", "error"
    bcalls,      \* create_render_elements calls so far
    blog,        \* the last call: its arguments, the error, the render element the band was added to
    \* one frame element that is rendered page by page
    frelem,      \* the fields of the FrameElement object, its elements and its container
    frpc,        \* "new", "ready", "done", "error"
    frcalls,     \* get_next_render_element calls since prepare
    frlog,       \* per call: the arguments, what the container returned and what the call returned
    \* one section element and the Context its rows are pushed on
    section,     \* the fields of the SectionElement object and of its bands
    sctx,        \* the Context: stack, data, id
    spc,         \* "new", "ready", "verified", "done", "sheet", "error"
    scalls,      \* get_next_render_element calls since prepare
    slog,        \* the last operation: its name, the stack depth and the row index before it, what it returned
    \* the page header and footer settings of a Report and the bands its drivers process
    ddata,       \* the document properties of the report definition: header, headerDisplay, footer, footerDisplay
    dprops,      \* the DocumentProperties object
    dpc,         \* "new", "built", "verified", "xlsx"
    dlog         \* the bands processed by the last operation, in their order

containerVars == <<elems, container, pc, error, calls, pass, lastCall, pageLog, firstLog>>

tableVars == <<table, theight, tpc, terror, tcalls, tpass, tlog>>

cellVars == <<cband, cparams, cpc, cpass, cshown>>

formatVars == <<fin, fpc, fout>>

renderVars == <<relems, rband, rlimit, rpage_count, rpc, rcalls, rlast, rpages, rcleaned>>

contextVars == <<xstack, xdata, xid, xlog, xlast, xfound, xroot>>

exprVars == <<ein, epc, eout>>

rangeVars == <<gparams, gdata, grange_count, gout>>

reportVars == <<pdef, perrors, ppc, pdoc>>

twinVars == <<wdef, wclock, wreports>>

lineVars == <<lelem, lpc, lcalls, llog>>

bandVars == <<bband, bpc, bcalls, blog>>

frameVars == <<frelem, frpc, frcalls, frlog>>

sectionVars == <<section, sctx, spc, scalls, slog>>

bandsVars == <<ddata, dprops, dpc, dlog>>

vars ==
    <<containerVars, tableVars, cellVars, formatVars, renderVars, contextVars, exprVars,
      rangeVars, reportVars, twinVars, lineVars, bandVars, frameVars, sectionVars, bandsVars>>

\* the variables a specification leaves alone
outsideContainer ==
    <<tableVars, cellVars, formatVars, renderVars, contextVars, exprVars,
      rangeVars, reportVars, twinVars, lineVars, bandVars, frameVars, sectionVars, bandsVars>>

outsideTable ==
    <<containerVars, cellVars, formatVars, renderVars, contextVars, exprVars,
      rangeVars, reportVars, twinVars, lineVars, bandVars, frameVars, sectionVars, bandsVars>>

outsideCells ==
    <<containerVars, tableVars, formatVars, renderVars, contextVars, exprVars,
      rangeVars, reportVars, twinVars, lineVars, bandVars, frameVars, sectionVars, bandsVars>>

outsideFormat ==
    <<containerVars, tableVars, cellVars, renderVars, contextVars, exprVars,
      rangeVars, reportVars, twinVars, lineVars, bandVars, frameVars, sectionVars, bandsVars>>

outsideContext ==
    <<containerVars, tableVars, cellVars, formatVars, renderVars, exprVars,
      rangeVars, reportVars, twinVars, lineVars, bandVars, frameVars, sectionVars, bandsVars>>

outsideExpr ==
    <<containerVars, tableVars, cellVars, formatVars, renderVars, contextVars,
      rangeVars, reportVars, twinVars, lineVars, bandVars, frameVars, sectionVars, bandsVars>>

outsideRange ==
    <<containerVars, tableVars, cellVars, formatVars, renderVars, contextVars, exprVars,
      reportVars, twinVars, lineVars, bandVars, frameVars, sectionVars, bandsVars>>

outsideReport ==
    <<containerVars, tableVars, cellVars, formatVars, renderVars, contextVars, exprVars,
      rangeVars, twinVars, lineVars, bandVars, frameVars, sectionVars, bandsVars>>

outsideTwin ==
    <<containerVars, tableVars, cellVars, formatVars, renderVars, contextVars, exprVars,
      rangeVars, reportVars, lineVars, bandVars, frameVars, sectionVars, bandsVars>>

outsideRender ==
    <<containerVars, tableVars, cellVars, formatVars, contextVars, exprVars,
      rangeVars, reportVars, twinVars, lineVars, bandVars, frameVars, sectionVars, bandsVars>>

\* the value of the variables a specification does not use
outsideLines ==
    <<containerVars, tableVars, cellVars, formatVars, renderVars, contextVars, exprVars,
      rangeVars, reportVars, twinVars, bandVars, frameVars, sectionVars, bandsVars>>

outsideBand ==
    <<containerVars, tableVars, cellVars, formatVars, renderVars, contextVars, exprVars,
      rangeVars, reportVars, twinVars, lineVars, frameVars, sectionVars, bandsVars>>

outsideFrame ==
    <<containerVars, tableVars, cellVars, formatVars, renderVars, contextVars, exprVars,
      rangeVars, reportVars, twinVars, lineVars, bandVars, sectionVars, bandsVars>>

outsideSection ==
    <<containerVars, tableVars, cellVars, formatVars, renderVars, contextVars, exprVars,
      rangeVars, reportVars, twinVars, lineVars, bandVars, frameVars, bandsVars>>

outsideBands ==
    <<containerVars, tableVars, cellVars, formatVars, renderVars, contextVars, exprVars,
      rangeVars, reportVars, twinVars, lineVars, bandVars, frameVars, sectionVars>>

Idle == "idle"

IdleContainer ==
    /\ elems = Idle /\ container = Idle /\ pc = Idle /\ error = Idle /\ calls = Idle
    /\ pass = Idle /\ lastCall = Idle /\ pageLog = Idle /\ firstLog = Idle

IdleTable ==
    /\ table = Idle /\ theight = Idle /\ tpc = Idle /\ terror = Idle /\ tcalls = Idle
    /\ tpass = Idle /\ tlog = Idle

IdleCells == cband = Idle /\ cparams = Idle /\ cpc = Idle /\ cpass = Idle /\ cshown = Idle

IdleFormat == fin = Idle /\ fpc = Idle /\ fout = Idle

IdleRender ==
    /\ relems = Idle /\ rband = Idle /\ rlimit = Idle /\ rpage_count = Idle /\ rpc = Idle
    /\ rcalls = Idle /\ rlast = Idle /\ rpages = Idle /\ rcleaned = Idle

IdleContext ==
    /\ xstack = Idle /\ xdata = Idle /\ xid = Idle /\ xlog = Idle /\ xlast = Idle
    /\ xfound = Idle /\ xroot = Idle

IdleExpr == ein = Idle /\ epc = Idle /\ eout = Idle

IdleRange == gparams = Idle /\ gdata = Idle /\ grange_count = Idle /\ gout = Idle

IdleReport == pdef = Idle /\ perrors = Idle /\ ppc = Idle /\ pdoc = Idle

IdleTwin == wdef = Idle /\ wclock = Idle /\ wreports = Idle

IdleLines == lelem = Idle /\ lpc = Idle /\ lcalls = Idle /\ llog = Idle

IdleBand == bband = Idle /\ bpc = Idle /\ bcalls = Idle /\ blog = Idle

IdleFrame == frelem = Idle /\ frpc = Idle /\ frcalls = Idle /\ frlog = Idle

IdleSection == section = Idle /\ sctx = Idle /\ spc = Idle /\ scalls = Idle /\ slog = Idle

IdleBands == ddata = Idle /\ dprops = Idle /\ dpc = Idle /\ dlog = Idle

\* all variables but those of one specification are idle
IdleOutside(group) ==
    /\ IF group = "container" THEN TRUE ELSE IdleContainer
    /\ IF group = "table" THEN TRUE ELSE IdleTable
    /\ IF group = "cells" THEN TRUE ELSE IdleCells
    /\ IF group = "format" THEN TRUE ELSE IdleFormat
    /\ IF group = "render" THEN TRUE ELSE IdleRender
    /\ IF group = "context" THEN TRUE ELSE IdleContext
    /\ IF group = "expr" THEN TRUE ELSE IdleExpr
    /\ IF group = "range" THEN TRUE ELSE IdleRange
    /\ IF group = "report" THEN TRUE ELSE IdleReport
    /\ IF group = "twin" THEN TRUE ELSE IdleTwin
    /\ IF group = "lines" THEN TRUE ELSE IdleLines
    /\ IF group = "band" THEN TRUE ELSE IdleBand
    /\ IF group = "frame" THEN TRUE ELSE IdleFrame
    /\ IF group = "section" THEN TRUE ELSE IdleSection
    /\ IF group = "bands" THEN TRUE ELSE IdleBands

\* ------------------------------------------------------------------ bounds
MaxElems == 2
MaxPasses == 2
MaxCalls == 16
MaxRows == 3
MaxTablePasses == 2
MaxTableCalls == 6
MaxCells == 2
MaxEntries == 3
MaxCellRows == 2
MaxCellPasses == 2
MaxValue == 12
MaxPageLimit == 3
MaxDepth == 3
MaxContextId == 5
MaxExprValue == 2
MaxItems == 3
MaxItemValue == 1
MaxRanges == 2
MaxParams == 2
MaxDay == 2
MaxMinute == 1

\* ------------------------------------------------------------------ helpers
None == -1

Min(a, b) == IF a < b THEN a ELSE b

Max(a, b) == IF a > b THEN a ELSE b

RECURSIVE SeqRemoveFirst(_, _)
\* list.remove(x): drops the first occurrence of x
SeqRemoveFirst(s, x) ==
    IF s = <<>> THEN <<>>
    ELSE IF Head(s) = x THEN Tail(s)
    ELSE <<Head(s)>> \o SeqRemoveFirst(Tail(s), x)

SeqDelete(s, i) == SubSeq(s, 1, i - 1) \o SubSeq(s, i + 1, Len(s))

InSeq(s, x) == \E k \in 1..Len(s) : s[k] = x

\* ------------------------------------------------------------------ elements
\* An element object: the template attributes read by the layout code and
\* the render state it mutates.
Element(kind, y, height, print_if, remove_empty, font_size, line_spacing, lines_count, padding_top, padding_bottom, valign, same_page) ==
    [kind |-> kind, y |-> y, height |-> height,
     bottom |-> IF kind = "pagebreak" THEN y ELSE y + height,
     sort_order |-> IF kind = "pagebreak" THEN 0 ELSE 1,
     print_if |-> print_if, remove_empty_element |-> remove_empty,
     font_size |-> font_size, line_spacing |-> line_spacing, content_lines |-> lines_count,
     padding_top |-> padding_top, padding_bottom |-> padding_bottom,
     vertical_alignment |-> valign, always_print_on_same_page |-> same_page,
     render_y |-> 0, render_bottom |-> 0,
     first_render_element |-> TRUE, rendering_complete |-> FALSE,
     predecessors |-> <<>>, successors |-> <<>>,
     text_lines |-> <<>>, lines_count |-> 0, line_index |-> -1, text_height |-> 0,
     space_top |-> 0, space_bottom |-> 0, total_height |-> 0]

LineElement(height, print_if, remove_empty) ==
    Element("line", 0, height, print_if, remove_empty, 0, 1, 0, 0, 0, "top", FALSE)

PageBreakElement ==
    Element("pagebreak", 0, 0, TRUE, FALSE, 0, 1, 0, 0, 0, "top", FALSE)

TextElement(height, font_size, lines_count, padding, valign, same_page, remove_empty) ==
    Element("text", 0, height, TRUE, remove_empty, font_size, 1, lines_count,
            padding, padding, valign, same_page)

\* the element shapes a template is drawn from
Shapes ==
    { LineElement(20, TRUE, FALSE),
      LineElement(60, TRUE, FALSE),
      LineElement(20, FALSE, FALSE),
      LineElement(20, FALSE, TRUE),
      PageBreakElement,
      TextElement(20, 20, 3, 0, "top", FALSE, FALSE),
      TextElement(60, 20, 1, 0, "bottom", FALSE, FALSE),
      TextElement(60, 10, 2, 10, "middle", FALSE, FALSE),
      TextElement(20, 20, 0, 0, "top", FALSE, TRUE),
      TextElement(60, 20, 2, 0, "top", TRUE, FALSE),
      TextElement(60, 60, 1, 0, "top", FALSE, FALSE) }

Ys == {0, 20, 70}

Heights == {50, 90}

Placed == { [s EXCEPT !.y = y, !.bottom = IF s.kind = "pagebreak" THEN y ELSE y + s.height] :
            s \in Shapes, y \in Ys }

Templates(n) == [1..n -> Placed]


\* ------------------------------------------------------------------ docelement.py
\* variant: only the nearest element that ends before e is stored
is_predecessor_Nearest(es, e, p) ==
    /\ es[e].y >= es[p].bottom
    /\ Len(es[e].predecessors) = 0

\* DocElementBase.is_predecessor: p ends before e starts and ends after the
\* start of e's first stored predecessor
is_predecessor(es, e, p) ==
    /\ es[e].y >= es[p].bottom
    /\ \/ Len(es[e].predecessors) = 0
       \/ es[p].bottom > es[es[e].predecessors[1]].y

add_predecessor(es, e, p) ==
    [es EXCEPT ![e].predecessors = Append(es[e].predecessors, p),
               ![p].successors = Append(es[p].successors, e)]

\* variant: the predecessor test is skipped
has_uncompleted_predecessor_Skipped(es, e, completed_elements) == FALSE

has_uncompleted_predecessor(es, e, completed_elements) ==
    \E k \in 1..Len(es[e].predecessors) :
        \/ es[e].predecessors[k] \notin completed_elements
        \/ ~es[es[e].predecessors[k]].rendering_complete

RECURSIVE MaxRenderBottom(_, _, _)
MaxRenderBottom(es, preds, k) ==
    IF k > Len(preds) THEN 0
    ELSE Max(es[preds[k]].render_bottom, MaxRenderBottom(es, preds, k + 1))

RECURSIVE MinPredecessorDist(_, _, _, _)
\* variant: the gap to the first stored predecessor
MinPredecessorDist_First(es, e, preds, k) ==
    IF k > Len(preds) THEN None ELSE es[e].y - es[preds[k]].bottom

MinPredecessorDist(es, e, preds, k) ==
    IF k > Len(preds) THEN None
    ELSE LET d == es[e].y - es[preds[k]].bottom
             rest == MinPredecessorDist(es, e, preds, k + 1)
         IN IF rest = None \/ d < rest THEN d ELSE rest

\* variant: the offset is the layout position, the predecessors are ignored
DocElementBase_get_offset_y_Layout(es, e) == es[e].y

\* DocElementBase.get_offset_y: lowest bottom of the predecessors plus the
\* minimum distance to any predecessor
DocElementBase_get_offset_y(es, e) ==
    LET max_bottom == MaxRenderBottom(es, es[e].predecessors, 1)
        min_predecessor_dist == MinPredecessorDist(es, e, es[e].predecessors, 1)
    IN max_bottom + (IF min_predecessor_dist = None THEN 0 ELSE min_predecessor_dist)

\* variant: the link to a finished predecessor is kept
clear_predecessor_Kept(es, e, p) == es

clear_predecessor(es, e, p) ==
    IF InSeq(es[e].predecessors, p)
    THEN [es EXCEPT ![e].predecessors = SeqRemoveFirst(es[e].predecessors, p)]
    ELSE es

\* DocElementBase.is_printed and TextElement.is_printed; the value of the
\* print condition is an attribute of the template (the data do not change)
is_printed(e) ==
    IF e.kind = "cell" THEN e.column_visible /\ ~e.inside_colspan
    ELSE IF e.kind = "text" /\ e.remove_empty_element /\ Len(e.text_lines) = 0 THEN FALSE
    ELSE e.print_if

finish_empty_element(e, offset_y) ==
    [e EXCEPT !.render_bottom = IF e.remove_empty_element THEN offset_y ELSE offset_y + e.height,
              !.rendering_complete = TRUE]

\* DocElement.get_next_render_element: a fixed-size element is rendered as a
\* whole or not at all.  Result: the element, the slice (or NoSlice), complete, error
NoSlice == [id |-> 0]

DocElement_get_next_render_element(e, id, offset_y, container_height) ==
    IF offset_y + e.height <= container_height
    THEN [elem |-> [e EXCEPT !.render_y = offset_y, !.render_bottom = offset_y + e.height,
                             !.rendering_complete = TRUE],
          slice |-> [id |-> id, render_y |-> offset_y, render_bottom |-> offset_y + e.height,
                     height |-> e.height, first_line |-> 0, line_count |-> 0, type |-> "complete"],
          complete |-> TRUE, error |-> ""]
    ELSE [elem |-> e, slice |-> NoSlice, complete |-> FALSE, error |-> ""]

\* ------------------------------------------------------------------ elements.py, TextElement
\* TextLine.setup: the last line has the font size as height, the others
\* font size times line spacing
TextLineHeight(e, k, n) == IF k = n THEN e.font_size ELSE e.font_size * e.line_spacing

RECURSIVE SumSeq(_)
SumSeq(s) == IF s = <<>> THEN 0 ELSE Head(s) + SumSeq(Tail(s))

\* TextElement.set_height
set_height(e, height) ==
    LET total_height == IF e.text_height > 0
                        THEN e.text_height + e.padding_top + e.padding_bottom ELSE 0
        remaining_space == height - total_height
        st == IF total_height < height
              THEN (IF e.vertical_alignment = "middle" THEN remaining_space \div 2
                    ELSE IF e.vertical_alignment = "bottom" THEN remaining_space ELSE 0)
              ELSE 0
        sb == IF total_height < height
              THEN (IF e.vertical_alignment = "top" THEN remaining_space
                    ELSE IF e.vertical_alignment = "middle" THEN remaining_space \div 2 ELSE 0)
              ELSE 0
    IN [e EXCEPT !.space_top = st, !.space_bottom = sb, !.total_height = total_height + st + sb]

\* TextElement.prepare with a pdf document (split_text_lines, set_height)
TextElement_prepare(e) ==
    LET same_page == IF e.vertical_alignment # "top" /\ ~e.always_print_on_same_page
                     THEN TRUE ELSE e.always_print_on_same_page
        lines == [k \in 1..e.content_lines |-> TextLineHeight(e, k, e.content_lines)]
        e1 == [e EXCEPT !.always_print_on_same_page = same_page,
                        !.text_lines = lines, !.lines_count = Len(lines),
                        !.text_height = SumSeq(lines), !.line_index = 0]
    IN set_height(e1, e1.height)

\* TableTextElement: a text element with the attributes of a table cell.
\* content is the text of the cell, a sequence of characters; data_width is
\* the width in the data of the cell, has_print_if tells whether the cell has
\* a print condition, pattern is <<>> without a pattern, simple_array_param
\* is the name of the parameter, <<>> for None.  The cells are not evaluated
\* (eval is False).
TableTextElement(height, font_size, lines_count, width, content) ==
    Element("cell", 0, height, TRUE, FALSE, font_size, 1, lines_count, 0, 0, "top", FALSE)
    @@ [x |-> 0, width |-> width, initial_width |-> width, colspan |-> 1,
        column_visible |-> TRUE, inside_colspan |-> FALSE, content |-> content,
        data_width |-> width, has_print_if |-> FALSE, pattern |-> <<>>,
        simple_array_param |-> <<>>, simple_array_item_index |-> -1]

\* TextElement.prepare for a table cell: the vertical alignment does not
\* force the cell onto one page, and the total height is at least the height
\* of the cell
TableTextElement_prepare(e) ==
    [e EXCEPT !.text_lines = [k \in 1..e.content_lines |-> TextLineHeight(e, k, e.content_lines)],
              !.lines_count = e.content_lines,
              !.text_height = SumSeq([k \in 1..e.content_lines |->
                                         TextLineHeight(e, k, e.content_lines)]),
              !.line_index = 0,
              !.total_height = Max(SumSeq([k \in 1..e.content_lines |->
                                              TextLineHeight(e, k, e.content_lines)])
                                   + e.padding_top + e.padding_bottom, e.height)]

\* the loop of get_next_render_element that takes the lines which fit:
\* st = [line_index, remaining_height, block_height, text_height, lines];
\* lines holds the indices of the lines appended to the list of the block
RECURSIVE TakeLines(_, _)
\* variant: a line that does not fit is passed over
TakeLines_PassOver(e, st) ==
    IF st.line_index >= e.lines_count THEN st
    ELSE LET last_line == st.line_index >= e.lines_count - 1
             line_height == e.text_lines[st.line_index + 1]
             tmp_height == line_height
                           + (IF st.line_index = 0 THEN e.padding_top ELSE 0)
                           + (IF last_line THEN e.padding_bottom ELSE 0)
         IN IF tmp_height > st.remaining_height
            THEN IF st.lines = <<>> THEN st ELSE [st EXCEPT !.line_index = @ + 1]
            ELSE TakeLines(e, [line_index |-> st.line_index + 1,
                               remaining_height |-> st.remaining_height - tmp_height,
                               block_height |-> st.block_height + tmp_height,
                               text_height |-> st.text_height + line_height,
                               lines |-> Append(st.lines, st.line_index)])

TakeLines(e, st) ==
    IF st.line_index >= e.lines_count THEN st
    ELSE LET last_line == st.line_index >= e.lines_count - 1
             line_height == e.text_lines[st.line_index + 1]
             tmp_height == line_height
                           + (IF st.line_index = 0 THEN e.padding_top ELSE 0)
                           + (IF last_line THEN e.padding_bottom ELSE 0)
         IN IF tmp_height > st.remaining_height THEN st
            ELSE TakeLines(e, [line_index |-> st.line_index + 1,
                               remaining_height |-> st.remaining_height - tmp_height,
                               block_height |-> st.block_height + tmp_height,
                               text_height |-> st.text_height + line_height,
                               lines |-> Append(st.lines, st.line_index)])

\* the part of TextElement.get_next_render_element behind the loop over the
\* lines: s1 is the state the loop ended in, space_top what is left of the
\* space above the text
TextElement_render_lines(e, id, offset_y, container_top, space_top, s1) ==
    LET used_bottom == IF s1.line_index >= e.lines_count /\ e.space_bottom > 0
                       THEN Min(e.space_bottom, s1.remaining_height) ELSE 0
        space_bottom == e.space_bottom - used_bottom
        remaining_height == s1.remaining_height - used_bottom
        rendering_complete == s1.line_index >= e.lines_count /\ space_top = 0 /\ space_bottom = 0
        block_height == s1.block_height + used_bottom
                        + (IF ~rendering_complete /\ remaining_height > 0 THEN remaining_height ELSE 0)
        render_element_type ==
            IF e.first_render_element /\ rendering_complete THEN "complete"
            ELSE IF e.first_render_element THEN "first"
            ELSE IF rendering_complete THEN "last" ELSE "between"
        \* the progress fields are assigned before the test of the first line
        e1 == [e EXCEPT !.space_top = space_top, !.space_bottom = space_bottom,
                        !.line_index = s1.line_index]
    IN
    IF space_top = 0 /\ s1.line_index = 0 /\ e.lines_count > 0
    THEN \* even the first line does not fit
         IF offset_y # 0 \/ container_top # 0
         THEN [elem |-> e1, slice |-> NoSlice, complete |-> FALSE, error |-> ""]
         ELSE [elem |-> e1, slice |-> NoSlice, complete |-> FALSE, error |-> "errorMsgInvalidSize"]
    ELSE [elem |-> [e1 EXCEPT !.first_render_element = FALSE,
                              !.render_bottom = offset_y + block_height,
                              !.rendering_complete = rendering_complete],
          slice |-> [id |-> id, render_y |-> offset_y, render_bottom |-> offset_y + block_height,
                     height |-> block_height, first_line |-> e.line_index,
                     line_count |-> Len(s1.lines), type |-> render_element_type],
          complete |-> rendering_complete, error |-> ""]

TextElement_get_next_render_element(e, id, offset_y, container_top, container_height) ==
    LET available_height == container_height - offset_y
        used_top == IF e.space_top > 0 THEN Min(e.space_top, available_height) ELSE 0
        space_top == e.space_top - used_top
        s0 == [line_index |-> e.line_index, remaining_height |-> available_height - used_top,
               block_height |-> used_top, text_height |-> 0, lines |-> <<>>]
    IN
    IF /\ e.always_print_on_same_page /\ e.first_render_element
       /\ e.total_height > available_height /\ (offset_y # 0 \/ container_top # 0)
    THEN [elem |-> e, slice |-> NoSlice, complete |-> FALSE, error |-> ""]
    ELSE TextElement_render_lines(e, id, offset_y, container_top, space_top,
                                  IF space_top = 0 THEN TakeLines(e, s0) ELSE s0)

\* dispatch of elem.get_next_render_element on the element kind
get_next_render_element(e, id, offset_y, container_top, container_height) ==
    IF e.kind = "text" \/ e.kind = "cell"
    THEN TextElement_get_next_render_element(e, id, offset_y, container_top, container_height)
    ELSE DocElement_get_next_render_element(e, id, offset_y, container_height)

\* ------------------------------------------------------------------ containers.py
PageBreakMarker == [id |-> -1]

NewContainer(allow_page_break, height) ==
    [allow_page_break |-> allow_page_break, height |-> height,
     doc_elements |-> <<>>, sorted_elements |-> <<>>, render_elements |-> <<>>,
     render_elements_created |-> FALSE, manual_page_break |-> FALSE,
     first_element_offset_y |-> 0, max_bottom |-> 0, render_bottom |-> 0, width |-> 0]

\* elem.prepare for every element, and the reset of the render flags in a
\* container without page breaks (header, footer)
\* Container.add
Container_add(c, id) == [c EXCEPT !.doc_elements = Append(c.doc_elements, id)]

RECURSIVE Container_add_all(_, _, _)
Container_add_all(c, ids, k) ==
    IF k > Len(ids) THEN c ELSE Container_add_all(Container_add(c, ids[k]), ids, k + 1)

PrepareElement(e, allow_page_break) ==
    LET e1 == IF e.kind = "text" THEN TextElement_prepare(e)
              ELSE IF e.kind = "cell" THEN TableTextElement_prepare(e) ELSE e
    IN IF ~allow_page_break
       THEN [e1 EXCEPT !.first_render_element = TRUE, !.rendering_complete = FALSE]
       ELSE e1

\* sorted(..., key=(y, sort_order)) is stable: x goes behind every element
\* whose key is not greater
KeyLessEq(a, b) == a.y < b.y \/ (a.y = b.y /\ a.sort_order <= b.sort_order)

RECURSIVE SortedInsert(_, _, _)
SortedInsert(es, sorted, x) ==
    IF sorted = <<>> THEN <<x>>
    ELSE IF KeyLessEq(es[Head(sorted)], es[x])
         THEN <<Head(sorted)>> \o SortedInsert(es, Tail(sorted), x)
         ELSE <<x>> \o sorted

RECURSIVE SortElements(_, _, _)
SortElements(es, ids, k) ==
    IF k = 0 THEN <<>>
    ELSE SortedInsert(es, SortElements(es, ids, k - 1), ids[k])

\* the inner loop of Container.prepare: j runs from i-1 down to the first
\* page break
RECURSIVE AddPredecessors(_, _, _, _)
AddPredecessors(es, sorted, i, j) ==
    IF j < 1 THEN es
    ELSE IF es[sorted[j]].kind = "pagebreak" THEN es
    ELSE IF is_predecessor(es, sorted[i], sorted[j])
         THEN AddPredecessors(add_predecessor(es, sorted[i], sorted[j]), sorted, i, j - 1)
         ELSE AddPredecessors(es, sorted, i, j - 1)

RECURSIVE AllPredecessors(_, _, _)
AllPredecessors(es, sorted, i) ==
    IF i > Len(sorted) THEN es
    ELSE AllPredecessors(AddPredecessors(es, sorted, i, i - 1), sorted, i + 1)

\* Container.prepare for the PDF rendering
Container_prepare(es, c) ==
    LET es1 == [id \in DOMAIN es |-> IF InSeq(c.doc_elements, id)
                                     THEN PrepareElement(es[id], c.allow_page_break)
                                     ELSE es[id]]
        ids == SelectSeq(c.doc_elements,
                         LAMBDA id : es1[id].kind # "pagebreak" \/ is_printed(es1[id]))
        sorted == SortElements(es1, ids, Len(ids))
    IN [elems |-> AllPredecessors(es1, sorted, 1),
        container |-> [c EXCEPT !.sorted_elements = sorted, !.render_elements = <<>>,
                                !.render_bottom = 0, !.first_element_offset_y = 0]]

\* variant: the offset of the first element of the page is not subtracted
Container_get_offset_y_NoPageOffset(es, c, e) ==
    IF Len(es[e].predecessors) > 0
    THEN DocElementBase_get_offset_y(es, e)
    ELSE IF es[e].first_render_element THEN es[e].y ELSE 0

\* Container.get_offset_y
Container_get_offset_y(es, c, e) ==
    IF Len(es[e].predecessors) > 0
    THEN DocElementBase_get_offset_y(es, e)
    ELSE IF es[e].first_render_element
         THEN Max(es[e].y - c.first_element_offset_y, 0)
         ELSE 0

\* The end of one pass of the while loop of create_render_elements, for an
\* element that is not blocked and not a page break: r is the result of
\* get_next_render_element (or of finish_empty_element, or the refusal
\* because the offset is behind the end of the page).
LoopStepRendered(L, id, entry, offset_y, printed, new_page, r) ==
    IF r.error # ""
    THEN [L EXCEPT !.error = r.error, !.es[id] = r.elem,
                   !.log = Append(L.log, [entry EXCEPT !.offset_y = offset_y, !.outcome = "error"])]
    ELSE
    [L EXCEPT
       !.new_page = new_page,
       !.es[id] = r.elem,
       !.processed_elements = IF r.complete THEN Append(L.processed_elements, id)
                              ELSE L.processed_elements,
       !.c.render_elements = IF r.slice # NoSlice THEN Append(L.c.render_elements, r.slice)
                             ELSE L.c.render_elements,
       !.c.render_elements_created = IF r.slice # NoSlice THEN TRUE
                                     ELSE L.c.render_elements_created,
       !.c.max_bottom = IF r.slice # NoSlice /\ L.es[id].bottom > L.c.max_bottom
                        THEN L.es[id].bottom ELSE L.c.max_bottom,
       !.c.render_bottom = IF r.slice # NoSlice /\ r.slice.render_bottom > L.c.render_bottom
                           THEN r.slice.render_bottom ELSE L.c.render_bottom,
       !.next_offset_y = IF ~r.complete /\ L.next_offset_y = None THEN L.es[id].y
                         ELSE L.next_offset_y,
       !.completed_elements = IF r.complete THEN L.completed_elements \cup {id}
                              ELSE L.completed_elements,
       !.c.sorted_elements = IF r.complete THEN SeqDelete(L.c.sorted_elements, L.i)
                             ELSE L.c.sorted_elements,
       !.i = IF r.complete THEN L.i ELSE L.i + 1,
       !.slices = IF r.slice # NoSlice THEN Append(L.slices, r.slice) ELSE L.slices,
       !.log = Append(L.log, [entry EXCEPT !.offset_y = offset_y,
                                           !.outcome = IF ~printed THEN "empty"
                                                       ELSE IF r.slice # NoSlice THEN "rendered"
                                                       ELSE "deferred",
                                           !.complete = r.complete,
                                           !.render_bottom = r.elem.render_bottom])]

\* the branch of the pass for an element that is not blocked and not a page
\* break: offset_y is the value of self.get_offset_y(elem)
LoopStepElement(L, id, entry, offset_y, container_top, container_height) ==
    LoopStepRendered(L, id, entry, offset_y, is_printed(L.es[id]),
        is_printed(L.es[id]) /\ offset_y >= container_height,
        IF is_printed(L.es[id]) /\ offset_y < container_height
        THEN get_next_render_element(L.es[id], id, offset_y, container_top, container_height)
        ELSE IF is_printed(L.es[id])
             THEN [elem |-> L.es[id], slice |-> NoSlice, complete |-> FALSE, error |-> ""]
             ELSE [elem |-> finish_empty_element(L.es[id], offset_y), slice |-> NoSlice,
                   complete |-> TRUE, error |-> ""])

\* One pass of the while loop of create_render_elements.  L holds the local
\* variables of the call, the container and the elements; L.log records, for
\* the element of this pass, the predecessors stored on it when it was
\* reached, the elements completed so far and what happened to it.
\* variant: the loop goes on behind a page break
LoopStepAt_GoOn(L, id, entry, container_top, container_height) ==
    IF has_uncompleted_predecessor(L.es, id, L.completed_elements)
    THEN [L EXCEPT !.new_page = TRUE, !.log = Append(L.log, [entry EXCEPT !.outcome = "blocked"])]
    ELSE IF L.es[id].kind = "pagebreak"
    THEN IF L.c.allow_page_break
         THEN [L EXCEPT !.c.sorted_elements = SeqDelete(L.c.sorted_elements, L.i),
                        !.c.manual_page_break = TRUE,
                        !.next_offset_y = L.es[id].y,
                        !.log = Append(L.log, [entry EXCEPT !.outcome = "pagebreak"])]
         ELSE [L EXCEPT !.c.sorted_elements = <<>>, !.returned = TRUE,
                        !.log = Append(L.log, [entry EXCEPT !.outcome = "pagebreak"])]
    ELSE LoopStepElement(L, id, entry, Container_get_offset_y(L.es, L.c, id),
                         container_top, container_height)

LoopStepAt(L, id, entry, container_top, container_height) ==
    IF has_uncompleted_predecessor(L.es, id, L.completed_elements)
    THEN [L EXCEPT !.new_page = TRUE, !.log = Append(L.log, [entry EXCEPT !.outcome = "blocked"])]
    ELSE IF L.es[id].kind = "pagebreak"
    THEN IF L.c.allow_page_break
         THEN [L EXCEPT !.c.sorted_elements = SeqDelete(L.c.sorted_elements, L.i),
                        !.new_page = TRUE, !.c.manual_page_break = TRUE,
                        !.next_offset_y = L.es[id].y,
                        !.log = Append(L.log, [entry EXCEPT !.outcome = "pagebreak"])]
         ELSE [L EXCEPT !.c.sorted_elements = <<>>, !.returned = TRUE,
                        !.log = Append(L.log, [entry EXCEPT !.outcome = "pagebreak"])]
    ELSE LoopStepElement(L, id, entry, Container_get_offset_y(L.es, L.c, id),
                         container_top, container_height)

LogEntry(L, id) ==
    [id |-> id, predecessors |-> L.es[id].predecessors, completed |-> L.completed_elements,
     offset_y |-> None, outcome |-> "deferred", complete |-> FALSE,
     render_bottom |-> L.es[id].render_bottom, first |-> L.es[id].first_render_element,
     first_element_offset_y |-> L.c.first_element_offset_y]

LoopStep(L, container_top, container_height) ==
    LoopStepAt(L, L.c.sorted_elements[L.i], LogEntry(L, L.c.sorted_elements[L.i]),
               container_top, container_height)

RECURSIVE Loop(_, _, _)
Loop(L, container_top, container_height) ==
    IF L.new_page \/ L.returned \/ L.error # "" \/ L.i > Len(L.c.sorted_elements) THEN L
    ELSE Loop(LoopStep(L, container_top, container_height), container_top, container_height)

\* the loops that clear the predecessor links to the processed elements
RECURSIVE ClearProcessed(_, _, _)
RECURSIVE ClearSuccessors(_, _, _)
ClearSuccessors(es, p, k) ==
    IF k > Len(es[p].successors) THEN es
    ELSE ClearSuccessors(clear_predecessor(es, es[p].successors[k], p), p, k + 1)

\* variant: the links to the first processed element are kept
ClearProcessed_SkipFirst(es, processed, k) ==
    IF Len(processed) = 0 THEN es ELSE ClearProcessed(es, Tail(processed), 1)

ClearProcessed(es, processed, k) ==
    IF k > Len(processed) THEN es
    ELSE ClearProcessed(ClearSuccessors(es, processed[k], 1), processed, k + 1)

\* the statements of create_render_elements behind the while loop
AfterLoop(L, c1, more) ==
    IF L.error # "" THEN [elems |-> L.es, container |-> L.c, complete |-> FALSE,
                          error |-> L.error, slices |-> L.slices, log |-> L.log]
    ELSE IF L.returned THEN [elems |-> L.es, container |-> L.c, complete |-> TRUE,
                             error |-> "", slices |-> L.slices, log |-> L.log]
    ELSE [elems |-> IF more THEN ClearProcessed(L.es, L.processed_elements, 1) ELSE L.es,
          container |-> IF more /\ c1.allow_page_break
                        THEN [c1 EXCEPT !.render_elements = Append(c1.render_elements, PageBreakMarker)]
                        ELSE c1,
          complete |-> ~more, error |-> "", slices |-> L.slices, log |-> L.log]

SetFirstElementOffset(L) ==
    AfterLoop(L, [L.c EXCEPT !.first_element_offset_y =
                                IF L.next_offset_y # None /\ L.next_offset_y # 0
                                THEN L.next_offset_y ELSE 0],
              Len(L.c.sorted_elements) > 0)

\* Container.create_render_elements.  Result: elems, container, the return
\* value, the raised error and the record of the call
create_render_elements(es, c, container_top, container_height) ==
    SetFirstElementOffset(
        Loop([i |-> 1, new_page |-> FALSE, processed_elements |-> <<>>,
              completed_elements |-> {}, next_offset_y |-> None,
              returned |-> FALSE, error |-> "", slices |-> <<>>, log |-> <<>>,
              es |-> es,
              c |-> [c EXCEPT !.render_elements_created = FALSE, !.manual_page_break = FALSE]],
             container_top, container_height))

\* variant: first_render_element is not set again
Container_reset_KeepFirst(es, c) ==
    [elems |-> [id \in DOMAIN es |-> IF InSeq(c.doc_elements, id)
                                     THEN [es[id] EXCEPT !.rendering_complete = FALSE]
                                     ELSE es[id]],
     container |-> [c EXCEPT !.manual_page_break = FALSE, !.first_element_offset_y = 0,
                             !.max_bottom = 0, !.render_bottom = 0]]

\* Container.reset
Container_reset(es, c) ==
    [elems |-> [id \in DOMAIN es |-> IF InSeq(c.doc_elements, id)
                                     THEN [es[id] EXCEPT !.first_render_element = TRUE,
                                                         !.rendering_complete = FALSE]
                                     ELSE es[id]],
     container |-> [c EXCEPT !.manual_page_break = FALSE, !.first_element_offset_y = 0,
                             !.max_bottom = 0, !.render_bottom = 0]]

\* ------------------------------------------------------------------ context.py
\* A string is a sequence of characters.  The parameters of the scope are a
\* function from names to [type, value, exists, pattern, array_item_type];
\* exists tells whether the data hold a value for the name.
RECURSIVE LStrip(_, _)
LStrip(str, chars) ==
    IF str # <<>> /\ Head(str) \in chars THEN LStrip(Tail(str), chars) ELSE str

RECURSIVE RStrip(_, _)
RStrip(str, chars) ==
    IF str # <<>> /\ str[Len(str)] \in chars THEN RStrip(SubSeq(str, 1, Len(str) - 1), chars)
    ELSE str

StartsWith(str, prefix) ==
    Len(str) >= Len(prefix) /\ SubSeq(str, 1, Len(prefix)) = prefix

\* str.find('${') # -1
HasReference(str) == \E i \in 1..(Len(str) - 1) : str[i] = "$" /\ str[i + 1] = "{"

\* Context.get_parameter in a context of one scope
\* A parameter reference is a record of the parameter and its data: type,
\* array_item_type, pattern, exists (the data holds the name), null (the
\* value is None) and value.
NoParameter == [type |-> "none"]

get_parameter(params, name) == IF name \in DOMAIN params THEN params[name] ELSE NoParameter

\* Context.strip_parameter_name
strip_parameter_name(expr) == RStrip(LStrip(RStrip(LStrip(expr, {" "}), {" "}), {"$", "{"}), {"}"})

\* Context.is_parameter_name
is_parameter_name(expr) ==
    /\ expr # <<>>
    /\ StartsWith(LStrip(expr, {" "}), <<"$", "{">>)
    /\ RStrip(expr, {" "}) # <<>>
    /\ RStrip(expr, {" "})[Len(RStrip(expr, {" "}))] = "}"

\* str(value) of a number that is a natural number
DigitChars == <<"0", "1", "2", "3", "4", "5", "6", "7", "8", "9">>

RECURSIVE Digits(_)
Digits(v) ==
    IF v < 10 THEN <<DigitChars[v + 1]>>
    ELSE Digits(v \div 10) \o <<DigitChars[(v % 10) + 1]>>

\* babel.numbers.format_decimal, as imported by context.py, for a natural
\* number and a pattern made of a literal prefix, a number part out of the
\* characters 0 # . and a literal suffix: the literal parts are copied, the
\* number part becomes the digits of the value and, behind the decimal
\* separator of the locale, a zero for every 0 behind the point.  Without a
\* pattern the default pattern of the locale gives the digits.
NumberChars == {"0", "#", "."}

RECURSIVE PrefixLen(_, _)
PrefixLen(pattern, k) ==
    IF k > Len(pattern) \/ pattern[k] \in NumberChars THEN k - 1
    ELSE PrefixLen(pattern, k + 1)

RECURSIVE NumberEnd(_, _)
NumberEnd(pattern, k) ==
    IF k > Len(pattern) \/ pattern[k] \notin NumberChars THEN k - 1
    ELSE NumberEnd(pattern, k + 1)

DecimalSeparator(locale) == IF locale = "de" THEN "," ELSE "."

FormatNumber(v, number, locale) ==
    IF \E i \in 1..Len(number) : number[i] = "."
    THEN LET point == CHOOSE i \in 1..Len(number) :
                          number[i] = "." /\ \A j \in 1..(i - 1) : number[j] # "."
             zeros == SelectSeq(SubSeq(number, point + 1, Len(number)), LAMBDA c : c = "0")
         IN IF zeros = <<>> THEN Digits(v)
            ELSE Digits(v) \o <<DecimalSeparator(locale)>> \o zeros
    ELSE Digits(v)

format_decimal(v, pattern, locale) ==
    IF pattern = <<>> THEN Digits(v)
    ELSE SubSeq(pattern, 1, PrefixLen(pattern, 1))
         \o FormatNumber(v, SubSeq(pattern, PrefixLen(pattern, 1) + 1,
                                   NumberEnd(pattern, PrefixLen(pattern, 1) + 1)), locale)
         \o SubSeq(pattern, NumberEnd(pattern, PrefixLen(pattern, 1) + 1) + 1, Len(pattern))

\* str.replace('$', symbol)
ReplaceDollar(str, symbol) == [i \in 1..Len(str) |-> IF str[i] = "$" THEN symbol ELSE str[i]]

\* get_formatted_value, the branch of the number types
FormattedNumber(ctx, value, used_pattern, pattern_has_currency) ==
    IF used_pattern # <<>>
    THEN IF pattern_has_currency
         THEN ReplaceDollar(format_decimal(value, used_pattern, ctx.pattern_locale),
                            ctx.pattern_currency_symbol)
         ELSE format_decimal(value, used_pattern, ctx.pattern_locale)
    ELSE Digits(value)

\* Context.get_formatted_value: ctx holds params, pattern_locale and
\* pattern_currency_symbol; pattern is <<>> when no pattern is given
get_formatted_value(ctx, value, parameter, pattern, is_array_item) ==
    LET value_type == IF is_array_item /\ parameter.type = "simple_array"
                      THEN parameter.array_item_type ELSE parameter.type
    IN IF value_type = "string" THEN value
       ELSE IF value_type = "number"
       THEN IF pattern # <<>>
            THEN FormattedNumber(ctx, value, pattern, \E i \in 1..Len(pattern) : pattern[i] = "$")
            ELSE FormattedNumber(ctx, value, parameter.pattern,
                                 \E i \in 1..Len(parameter.pattern) : parameter.pattern[i] = "$")
       ELSE <<>>

\* str(value) for the value of a parameter: a string is itself, a number is
\* written with its digits
ValueStr(param_ref) ==
    IF param_ref.type = "string" THEN param_ref.value ELSE Digits(param_ref.value)

\* Context.fill_parameters.  S holds the local variables of the loop over
\* the characters: rv, prev_c, parameter_index (a position from 1, 0 outside
\* a reference) and the raised error.  parameter_type is "none" when the
\* option is not given.  The parameters are numbers and strings: the early
\* return for a rich-text value inside a p tag is not taken.
\* variant: a parameter without data contributes the empty string
FillReference_MissingAsEmpty(ctx, S, name, param_ref, pattern, parameter_type, ignore_pattern) ==
    IF param_ref = NoParameter
    THEN [S EXCEPT !.error = "errorMsgInvalidExpressionNameNotDefined"]
    ELSE IF parameter_type # "none" /\ param_ref.type # parameter_type
    THEN [S EXCEPT !.rv = @ \o <<"$", "{">> \o name \o <<"}">>, !.parameter_index = 0]
    ELSE IF param_ref.exists /\ ~param_ref.null
    THEN IF ignore_pattern
         THEN [S EXCEPT !.rv = ValueStr(param_ref), !.parameter_index = 0]
         ELSE [S EXCEPT !.rv = @ \o get_formatted_value(ctx, param_ref.value, param_ref,
                                                        pattern, FALSE),
                        !.parameter_index = 0]
    ELSE [S EXCEPT !.parameter_index = 0]

FillReference(ctx, S, name, param_ref, pattern, parameter_type, ignore_pattern) ==
    IF param_ref = NoParameter
    THEN [S EXCEPT !.error = "errorMsgInvalidExpressionNameNotDefined"]
    ELSE IF parameter_type # "none" /\ param_ref.type # parameter_type
    THEN [S EXCEPT !.rv = @ \o <<"$", "{">> \o name \o <<"}">>, !.parameter_index = 0]
    ELSE IF ~param_ref.exists
    THEN [S EXCEPT !.error = "errorMsgMissingParameterData"]
    ELSE IF ~param_ref.null
    THEN IF ignore_pattern
         THEN [S EXCEPT !.rv = ValueStr(param_ref), !.parameter_index = 0]
         ELSE [S EXCEPT !.rv = @ \o get_formatted_value(ctx, param_ref.value, param_ref,
                                                        pattern, FALSE),
                        !.parameter_index = 0]
    ELSE [S EXCEPT !.parameter_index = 0]

\* variant: the $ in front of the reference stays in the result
FillChar_KeepDollar(ctx, expr, pattern, parameter_type, ignore_pattern, S, i) ==
    IF S.parameter_index = 0
    THEN IF S.prev_c = "$" /\ expr[i] = "{"
         THEN [S EXCEPT !.parameter_index = i + 1, !.prev_c = expr[i]]
         ELSE [S EXCEPT !.rv = Append(@, expr[i]), !.prev_c = expr[i]]
    ELSE IF expr[i] = "}"
         THEN FillReference(ctx, [S EXCEPT !.prev_c = expr[i]],
                            SubSeq(expr, S.parameter_index, i - 1),
                            get_parameter(ctx.params, SubSeq(expr, S.parameter_index, i - 1)),
                            pattern, parameter_type, ignore_pattern)
         ELSE [S EXCEPT !.prev_c = expr[i]]

\* one pass of the loop, for the character at position i
FillChar(ctx, expr, pattern, parameter_type, ignore_pattern, S, i) ==
    IF S.parameter_index = 0
    THEN IF S.prev_c = "$" /\ expr[i] = "{"
         THEN [S EXCEPT !.parameter_index = i + 1, !.prev_c = expr[i],
                        !.rv = SubSeq(@, 1, Len(@) - 1)]
         ELSE [S EXCEPT !.rv = Append(@, expr[i]), !.prev_c = expr[i]]
    ELSE IF expr[i] = "}"
         THEN FillReference(ctx, [S EXCEPT !.prev_c = expr[i]],
                            SubSeq(expr, S.parameter_index, i - 1),
                            get_parameter(ctx.params, SubSeq(expr, S.parameter_index, i - 1)),
                            pattern, parameter_type, ignore_pattern)
         ELSE [S EXCEPT !.prev_c = expr[i]]

RECURSIVE FillLoop(_, _, _, _, _, _, _)
FillLoop(ctx, expr, pattern, parameter_type, ignore_pattern, S, i) ==
    IF i > Len(expr) \/ S.error # "" THEN S
    ELSE FillLoop(ctx, expr, pattern, parameter_type, ignore_pattern,
                  FillChar(ctx, expr, pattern, parameter_type, ignore_pattern, S, i), i + 1)

\* Result: the returned string and the raised error
fill_parameters(ctx, expr, pattern, parameter_type, ignore_pattern) ==
    IF ~HasReference(expr) THEN [rv |-> expr, prev_c |-> "", parameter_index |-> 0, error |-> ""]
    ELSE FillLoop(ctx, expr, pattern, parameter_type, ignore_pattern,
                  [rv |-> <<>>, prev_c |-> "", parameter_index |-> 0, error |-> ""], 1)

\* ---- the stack of frames
\* A frame (ContextEntry) holds the names of its parameters, a reference to
\* its data map and the name of its data source, <<>> for None; prev_entry is
\* the frame below it in the stack.  The names of the model hold no dot.
ContextEntry(parameters, data, data_source) ==
    [parameters |-> parameters, data |-> data, data_source |-> data_source]

\* the reference to the data map of the root frame
RootData == 1

\* a ParameterRef names the frame whose parameters hold the name; its data
\* is the data map of that frame
NotFound == [found |-> FALSE]

ParameterRef(frame, name) == [found |-> TRUE, frame |-> frame, name |-> name]

\* str.find of a character: the position from 1, 0 for -1
Find(str, ch) ==
    IF \E i \in 1..Len(str) : str[i] = ch
    THEN CHOOSE i \in 1..Len(str) : str[i] = ch /\ \A j \in 1..(i - 1) : str[j] # ch
    ELSE 0

\* Context._get_parameter from the frame k downwards
RECURSIVE Context_get_parameter_in(_, _, _)
Context_get_parameter_in(stack, name, k) ==
    IF name \in stack[k].parameters THEN ParameterRef(k, name)
    ELSE IF k > 1 THEN Context_get_parameter_in(stack, name, k - 1)
    ELSE NotFound

\* the frames whose data source has the given name
DataSourceFrames(stack, data_source_name) ==
    {k \in 1..Len(stack) : stack[k].data_source # <<>> /\ stack[k].data_source = data_source_name}

\* variant: a name with a data source that no frame has is looked up in the
\* current frame
Context_get_parameter_at_Fallback(stack, name, k) ==
    IF Find(name, ":") = 0 THEN Context_get_parameter_in(stack, name, k)
    ELSE IF Find(name, ":") = 1
    THEN Context_get_parameter_in(stack, Tail(name), 1)
    ELSE IF DataSourceFrames(stack, SubSeq(name, 1, Find(name, ":") - 1)) = {}
    THEN Context_get_parameter_in(stack, SubSeq(name, Find(name, ":") + 1, Len(name)), k)
    ELSE Context_get_parameter_in(
             stack, SubSeq(name, Find(name, ":") + 1, Len(name)),
             CHOOSE f \in DataSourceFrames(stack, SubSeq(name, 1, Find(name, ":") - 1)) :
                 \A g \in DataSourceFrames(stack, SubSeq(name, 1, Find(name, ":") - 1)) : g <= f)

\* Context.get_parameter with context_entry = frame k, for a name that holds
\* at most one colon
Context_get_parameter_at(stack, name, k) ==
    IF Find(name, ":") = 0 THEN Context_get_parameter_in(stack, name, k)
    ELSE IF Find(name, ":") = 1
    THEN Context_get_parameter_in(stack, Tail(name), 1)
    ELSE IF DataSourceFrames(stack, SubSeq(name, 1, Find(name, ":") - 1)) = {}
    THEN NotFound
    ELSE Context_get_parameter_in(
             stack, SubSeq(name, Find(name, ":") + 1, Len(name)),
             CHOOSE f \in DataSourceFrames(stack, SubSeq(name, 1, Find(name, ":") - 1)) :
                 \A g \in DataSourceFrames(stack, SubSeq(name, 1, Find(name, ":") - 1)) : g <= f)

\* Context.get_parameter(name): context_entry is None, the current frame
Context_get_parameter(stack, name) == Context_get_parameter_at(stack, name, Len(stack))

\* variant: the id of a frame is its depth in the stack
push_context_DepthId(C, parameters, data, data_source) ==
    [stack |-> Append(C.stack, ContextEntry(parameters, data, data_source)),
     data |-> [C.data EXCEPT ![data] = Len(C.stack) + 1],
     id |-> C.id + 1,
     error |-> ""]

\* Context.push_context.  C = [stack, data, id]
push_context(C, parameters, data, data_source) ==
    [stack |-> Append(C.stack, ContextEntry(parameters, data, data_source)),
     data |-> [C.data EXCEPT ![data] = C.id + 1],
     id |-> C.id + 1,
     error |-> ""]

\* variant: the root frame can be popped
pop_context_Unchecked(C) ==
    IF Len(C.stack) <= 0
    THEN [stack |-> C.stack, data |-> C.data, id |-> C.id, error |-> "ReportBroInternalError"]
    ELSE [stack |-> SubSeq(C.stack, 1, Len(C.stack) - 1), data |-> C.data, id |-> C.id,
          error |-> ""]

\* Context.pop_context
pop_context(C) ==
    IF Len(C.stack) <= 1
    THEN [stack |-> C.stack, data |-> C.data, id |-> C.id, error |-> "ReportBroInternalError"]
    ELSE [stack |-> SubSeq(C.stack, 1, Len(C.stack) - 1), data |-> C.data, id |-> C.id,
          error |-> ""]

\* ---- expressions
\* In a frame of an expression's Context data is the data map itself, a
\* function from names to values; a value is a number, None or a boolean
\* (True is 1, False is 0).

\* str.find(sub, start) with positions from 0, -1 when there is none
Find0(str, sub, start) ==
    IF \E i \in start..(Len(str) - Len(sub)) : SubSeq(str, i + 1, i + Len(sub)) = sub
    THEN CHOOSE i \in start..(Len(str) - Len(sub)) :
             /\ SubSeq(str, i + 1, i + Len(sub)) = sub
             /\ \A j \in start..(i - 1) : SubSeq(str, j + 1, j + Len(sub)) # sub
    ELSE -1

\* str[a:b] with positions from 0
Slice(str, a, b) == SubSeq(str, a + 1, b)

\* parameter_name.replace('.', '_').replace(':', '_')
ReplaceChars(name) == [i \in 1..Len(name) |-> IF name[i] \in {".", ":"} THEN "_" ELSE name[i]]

\* the last branches of get_parameter_data: the value stored in the data map
StoredData(data, name) == IF name \in DOMAIN data THEN data[name] ELSE None

\* the value replace_parameters binds for a reference
ReferenceValue(stack, param_ref) ==
    IF param_ref.found THEN StoredData(stack[param_ref.frame].data, param_ref.name) ELSE None

\* EVAL_DEFAULT_NAMES of simpleeval
EVAL_DEFAULT_NAMES ==
    (<<"T", "r", "u", "e">> :> 1) @@ (<<"F", "a", "l", "s", "e">> :> 0)
    @@ (<<"N", "o", "n", "e">> :> None)

\* S = [rv, data, refs]; refs is the log of the references that were
\* replaced: name, identifier, whether the name resolved, value
BindReference(S, name, identifier, param_ref, value) ==
    [rv |-> S.rv \o identifier,
     data |-> (identifier :> value) @@ S.data,
     refs |-> Append(S.refs, [name |-> name, identifier |-> identifier,
                              found |-> param_ref.found, value |-> value])]

\* the loop of replace_parameters
RECURSIVE ReplaceLoop(_, _, _, _, _)
ReplaceReference(stack, expr, S, pos2, name) ==
    ReplaceLoop(stack, expr, Find0(expr, <<"$", "{">>, pos2 + 1), pos2 + 1,
                BindReference(S, name, ReplaceChars(name), Context_get_parameter(stack, name),
                              ReferenceValue(stack, Context_get_parameter(stack, name))))

ReplaceFrom(stack, expr, S, pos, pos2) ==
    IF pos2 # -1
    THEN ReplaceReference(stack, expr, S, pos2, Slice(expr, pos + 2, pos2))
    ELSE ReplaceLoop(stack, expr, -1, pos, S)

ReplaceLoop(stack, expr, pos, pos2, S) ==
    IF pos = -1 THEN [S EXCEPT !.rv = @ \o Slice(expr, pos2, Len(expr))]
    ELSE ReplaceFrom(stack, expr,
                     IF pos # 0 THEN [S EXCEPT !.rv = @ \o Slice(expr, pos2, pos)] ELSE S,
                     pos, Find0(expr, <<"}">>, pos))

\* Context.replace_parameters
replace_parameters(stack, expr, data) ==
    IF Find0(expr, <<"$", "{">>, 0) = -1
    THEN [rv |-> expr, data |-> data, refs |-> <<>>]
    ELSE ReplaceLoop(stack, expr, Find0(expr, <<"$", "{">>, 0), 0,
                     [rv |-> <<>>, data |-> data, refs |-> <<>>])

\* simple_eval of the expressions of the model: an operand, or two operands
\* compared with ==; an operand is a number or a name of names; a name
\* that names does not hold raises NameNotDefined
IsNumber(str) == str # <<>> /\ \A i \in 1..Len(str) : \E d \in 1..10 : str[i] = DigitChars[d]

OperandDefined(operand, names) == IsNumber(operand) \/ operand \in DOMAIN names

RECURSIVE NumberValue(_)
NumberValue(str) ==
    IF str = <<>> THEN 0
    ELSE 10 * NumberValue(SubSeq(str, 1, Len(str) - 1))
         + (CHOOSE d \in 0..9 : DigitChars[d + 1] = str[Len(str)])

OperandValue(operand, names) == IF IsNumber(operand) THEN NumberValue(operand) ELSE names[operand]

simple_eval(expr, names) ==
    IF Find0(expr, <<"=", "=">>, 0) = -1
    THEN IF OperandDefined(expr, names)
         THEN [value |-> OperandValue(expr, names), error |-> ""]
         ELSE [value |-> None, error |-> "NameNotDefined"]
    ELSE IF /\ OperandDefined(Slice(expr, 0, Find0(expr, <<"=", "=">>, 0)), names)
            /\ OperandDefined(Slice(expr, Find0(expr, <<"=", "=">>, 0) + 2, Len(expr)), names)
    THEN [value |-> IF OperandValue(Slice(expr, 0, Find0(expr, <<"=", "=">>, 0)), names)
                       = OperandValue(Slice(expr, Find0(expr, <<"=", "=">>, 0) + 2, Len(expr)), names)
                    THEN 1 ELSE 0,
          error |-> ""]
    ELSE [value |-> None, error |-> "NameNotDefined"]

\* the result of evaluate_expression after replace_parameters and simple_eval
Evaluated(replaced, r) ==
    [value |-> r.value,
     error |-> IF r.error = "NameNotDefined" THEN "errorMsgInvalidExpressionNameNotDefined"
               ELSE r.error,
     refs |-> replaced.refs]

\* Context.evaluate_expression
evaluate_expression(stack, expr) ==
    IF expr # <<>>
    THEN Evaluated(replace_parameters(stack, expr, EVAL_DEFAULT_NAMES),
                   simple_eval(replace_parameters(stack, expr, EVAL_DEFAULT_NAMES).rv,
                               replace_parameters(stack, expr, EVAL_DEFAULT_NAMES).data))
    ELSE [value |-> 1, error |-> "", refs |-> <<>>]

\* ---- aggregate parameters
\* A Parameter of the aggregate model: its type, its expression and its
\* range_stack of (row_start, row_end) pairs.  The value of an array is a
\* sequence of rows, a row maps field names to numbers; a mean is kept as
\* the exact quotient of a total n and a count d.
is_range_function(parameter) == parameter.type \in {"average", "sum"}

\* Parameter.set_range
set_range(parameter, row_start, row_end) ==
    [parameter EXCEPT !.range_stack = Append(@, [start |-> row_start, end |-> row_end])]

\* Parameter.clear_range
clear_range(parameter) ==
    [parameter EXCEPT !.range_stack = SubSeq(@, 1, Len(@) - 1)]

\* Parameter.get_range
get_range(parameter) ==
    IF parameter.range_stack # <<>> THEN parameter.range_stack[Len(parameter.range_stack)]
    ELSE [start |-> None, end |-> None]

\* items[start:end] of a list, positions from 0 and cut at the length
ListSlice(items, start, end) ==
    SubSeq(items, (IF start < Len(items) THEN start ELSE Len(items)) + 1,
           IF end < Len(items) THEN end ELSE Len(items))

\* variant: the end of the range is used as it is, and the end -1 of a list
\* slice stands for the position before the last row
RangeItems_RawEnd(items, range) ==
    IF range.start # None
    THEN ListSlice(items, range.start, IF range.end # -1 THEN range.end ELSE Len(items) - 1)
    ELSE items

\* the rows evaluate_parameter_func adds up
RangeItems(items, range) ==
    IF range.start # None
    THEN ListSlice(items, range.start, IF range.end # -1 THEN range.end ELSE Len(items))
    ELSE items

\* the loop over the items
RECURSIVE Total(_, _)
Total(items, field) ==
    IF items = <<>> THEN 0 ELSE Total(SubSeq(items, 1, Len(items) - 1), field) + items[Len(items)][field]

InvalidAvgSum == [value |-> None, exists |-> FALSE, error |-> "errorMsgInvalidAvgSumExpression"]

\* the end of evaluate_parameter_func: the value for the type
Aggregate(type, items, field) ==
    IF type = "average"
    THEN IF items = <<>>
         THEN [value |-> None, exists |-> FALSE, error |-> "decimal.InvalidOperation"]
         ELSE [value |-> [n |-> Total(items, field), d |-> Len(items)], exists |-> TRUE,
               error |-> ""]
    ELSE [value |-> Total(items, field), exists |-> TRUE, error |-> ""]

\* evaluate_parameter_func after the expression is split.  C = [params,
\* stack, range_count]; the rows of the model hold numbers only
EvaluateFunc(C, parameter, parameter_name, parameter_field, param_ref) ==
    IF ~param_ref.found THEN InvalidAvgSum
    ELSE IF C.params[param_ref.name].type # "array" THEN InvalidAvgSum
    ELSE IF param_ref.name \notin DOMAIN C.stack[param_ref.frame].data THEN InvalidAvgSum
    ELSE Aggregate(parameter.type,
                   RangeItems(C.stack[param_ref.frame].data[param_ref.name],
                              get_range(C.params[param_ref.name])),
                   parameter_field)

\* Context.evaluate_parameter_func
evaluate_parameter_func(C, parameter) ==
    IF Find0(strip_parameter_name(parameter.expression), <<".">>, 0) = -1 THEN InvalidAvgSum
    ELSE EvaluateFunc(
             C, parameter,
             Slice(strip_parameter_name(parameter.expression), 0,
                   Find0(strip_parameter_name(parameter.expression), <<".">>, 0)),
             Slice(strip_parameter_name(parameter.expression),
                   Find0(strip_parameter_name(parameter.expression), <<".">>, 0) + 1,
                   Len(strip_parameter_name(parameter.expression))),
             Context_get_parameter(
                 C.stack,
                 Slice(strip_parameter_name(parameter.expression), 0,
                       Find0(strip_parameter_name(parameter.expression), <<".">>, 0))))

\* Context.get_parameter_data
get_parameter_data(C, param_ref) ==
    IF C.range_count # 0 /\ is_range_function(C.params[param_ref.name])
    THEN evaluate_parameter_func(C, C.params[param_ref.name])
    ELSE IF param_ref.name \in DOMAIN C.stack[param_ref.frame].data
    THEN [value |-> C.stack[param_ref.frame].data[param_ref.name], exists |-> TRUE, error |-> ""]
    ELSE [value |-> None, exists |-> FALSE, error |-> ""]

\* ------------------------------------------------------------------ elements.py, TableBandElement
\* the loop of TableBandElement.__init__ over the column data: the cells
\* behind a cell with a colspan lie inside the colspan, their widths are
\* added to the cell with the colspan.  colspan_end is the last position
\* inside the colspan, colspan_element the position of the cell with it.
RECURSIVE ColspanLoop(_, _, _, _)
ColspanLoop(cells, k, colspan_end, colspan_element) ==
    IF k > Len(cells) THEN cells
    ELSE IF k <= colspan_end
    THEN ColspanLoop([cells EXCEPT ![colspan_element].initial_width = @ + cells[k].width,
                                   ![colspan_element].width = @ + cells[k].width,
                                   ![k].inside_colspan = TRUE],
                     k + 1, colspan_end, colspan_element)
    ELSE IF cells[k].colspan > 1
    THEN ColspanLoop(cells, k + 1, k + cells[k].colspan - 1, k)
    ELSE ColspanLoop(cells, k + 1, colspan_end, colspan_element)

\* A band owns its cells: es maps the ids of the cell objects to the cells,
\* cells lists the cells of the template, printed_cells the cells to print.
\* group_expression tells whether the band has a group expression; the
\* expression is ${g}, the group value of the row.
TableBandElement(id, band_type, height, cells, group_expression, before_group, flags) ==
    [id |-> id, band_type |-> band_type, height |-> height,
     repeat_header |-> band_type = "header" /\ flags.repeat_header,
     group_expression |-> group_expression, before_group |-> before_group,
     page_break |-> band_type = "content" /\ group_expression /\ flags.page_break,
     repeat_group_header |-> band_type = "content" /\ group_expression /\ flags.repeat_group_header,
     always_print_on_same_page |-> IF band_type = "content" THEN flags.always_print_on_same_page
                                   ELSE TRUE,
     es |-> ColspanLoop(cells, 1, 0, 0),
     cells |-> [k \in 1..Len(cells) |-> k], printed_cells |-> <<>>,
     print_if_result |-> TRUE, group_changed |-> FALSE,
     group_expr_result |-> None, prev_group_expr_result |-> None,
     next_group_expr_result |-> None, group_changed_row_indices |-> <<>>,
     group_row_index_start |-> 0, group_row_index_end |-> 0,
     container |-> NewContainer(FALSE, height),
     rendering_complete |-> FALSE, prepare_container |-> TRUE]

NoBand == [id |-> 0]

NoFlags ==
    [repeat_header |-> FALSE, page_break |-> FALSE, repeat_group_header |-> FALSE,
     always_print_on_same_page |-> FALSE]

\* the cell created by expand_simple_array for the entry i: a new cell from
\* the data of the template cell
ExpandedCell(cell, name, i) ==
    [TableTextElement(cell.height, cell.font_size, cell.content_lines, cell.data_width,
                      cell.content)
     EXCEPT !.colspan = cell.colspan, !.has_print_if = cell.has_print_if,
            !.pattern = cell.pattern, !.simple_array_param = name,
            !.simple_array_item_index = i]

\* the loop of expand_simple_array: S = [es, printed_cells]
RECURSIVE ExpandLoop(_, _, _, _, _)
ExpandLoop(S, cell, name, i, n) ==
    IF i >= n THEN S
    ELSE ExpandLoop([es |-> Append(S.es, ExpandedCell(cell, name, i)),
                     printed_cells |-> Append(S.printed_cells, Len(S.es) + 1)],
                    cell, name, i + 1, n)

\* TableTextElement.expand_simple_array for the cell with the given id
ExpandCell(S, id, name, param_ref) ==
    IF /\ param_ref # NoParameter
       /\ param_ref.type = "simple_array"
       /\ param_ref.exists
       /\ ~param_ref.null
       /\ Len(param_ref.value) > 0
    THEN ExpandLoop([S EXCEPT !.es[id].simple_array_param = name,
                              !.es[id].simple_array_item_index = 0],
                    S.es[id], name, 1, Len(param_ref.value))
    ELSE S

expand_simple_array(S, id, params) ==
    IF S.es[id].content # <<>> /\ is_parameter_name(S.es[id].content)
    THEN ExpandCell(S, id, strip_parameter_name(S.es[id].content),
                    get_parameter(params, strip_parameter_name(S.es[id].content)))
    ELSE S

\* the first loop of set_printed_cells, over the cells of the template
RECURSIVE PrintedCellsLoop(_, _, _, _)
PrintedCellsLoop(S, cells, k, params) ==
    IF k > Len(cells) THEN S
    ELSE IF S.es[cells[k]].column_visible /\ ~S.es[cells[k]].inside_colspan
         THEN PrintedCellsLoop(
                  expand_simple_array([S EXCEPT !.printed_cells = Append(S.printed_cells, cells[k])],
                                      cells[k], params),
                  cells, k + 1, params)
         ELSE PrintedCellsLoop(S, cells, k + 1, params)

\* the second loop of set_printed_cells: the x positions, container.add
RECURSIVE PlaceCellsLoop(_, _, _, _)
PlaceCellsLoop(b, printed_cells, k, table_width) ==
    IF k > Len(printed_cells)
    THEN [b EXCEPT !.container.width = table_width]
    ELSE PlaceCellsLoop([b EXCEPT !.es[printed_cells[k]].x = table_width,
                                  !.container = Container_add(b.container, printed_cells[k])],
                        printed_cells, k + 1, table_width + b.es[printed_cells[k]].width)

SetPrinted(b, S) ==
    PlaceCellsLoop([b EXCEPT !.es = S.es, !.printed_cells = S.printed_cells],
                   S.printed_cells, 1, 0)

\* TableBandElement.set_printed_cells
set_printed_cells(b, params) ==
    SetPrinted(b, PrintedCellsLoop([es |-> b.es, printed_cells |-> <<>>], b.cells, 1, params))

\* TextElement.fill_parameters: the returned string and the raised error
TextElement_fill_parameters(ctx, e) ==
    [rv |-> fill_parameters(ctx, e.content, e.pattern, "none", FALSE).rv,
     error |-> fill_parameters(ctx, e.content, e.pattern, "none", FALSE).error]

\* TableTextElement.fill_parameters with the reference to the parameter of
\* the cell; len(None) raises a TypeError
ArrayItem(ctx, cell, param_ref) ==
    IF param_ref # NoParameter /\ param_ref.exists
    THEN IF param_ref.null THEN [rv |-> <<>>, error |-> "TypeError"]
         ELSE IF cell.simple_array_item_index < Len(param_ref.value)
         THEN [rv |-> get_formatted_value(ctx, param_ref.value[cell.simple_array_item_index + 1],
                                          param_ref, <<>>, TRUE),
               error |-> ""]
         ELSE TextElement_fill_parameters(ctx, cell)
    ELSE TextElement_fill_parameters(ctx, cell)

TableTextElement_fill_parameters(ctx, cell) ==
    IF cell.simple_array_param # <<>>
    THEN ArrayItem(ctx, cell, get_parameter(ctx.params, cell.simple_array_param))
    ELSE TextElement_fill_parameters(ctx, cell)

\* TableBandElement.set_next_group_expression: value is the group expression
\* evaluated in the pushed context (the next row)
set_next_group_expression(b, has_next, value) ==
    [b EXCEPT !.prev_group_expr_result = b.group_expr_result,
              !.group_expr_result = b.next_group_expr_result,
              !.next_group_expr_result = IF has_next THEN value ELSE None]

\* TableBandElement.test_group_changed
test_group_changed(b, row_index) ==
    IF ~b.group_expression THEN b
    ELSE IF b.before_group
         THEN IF b.group_expr_result # b.prev_group_expr_result
              THEN [b EXCEPT !.group_changed_row_indices = Append(@, row_index)] ELSE b
         ELSE IF b.group_expr_result # b.next_group_expr_result
              THEN [b EXCEPT !.group_changed_row_indices = Append(@, row_index)] ELSE b

\* TableBandElement.update_group_changed_row_indices
update_group_changed_row_indices(b) ==
    IF b.rendering_complete /\ b.group_changed
    THEN [b EXCEPT !.group_changed_row_indices = Tail(@)]
    ELSE b

\* TableBandElement.prepare (the band has no print condition)
TableBandElement_prepare(b, row_index) ==
    IF ~b.group_expression THEN b
    ELSE IF b.group_changed_row_indices # <<>> /\ b.group_changed_row_indices[1] = row_index
         THEN IF b.before_group
              THEN [b EXCEPT !.group_changed = TRUE,
                             !.group_row_index_start = b.group_changed_row_indices[1],
                             !.group_row_index_end = IF Len(b.group_changed_row_indices) > 1
                                                     THEN b.group_changed_row_indices[2] ELSE -1]
              ELSE [b EXCEPT !.group_changed = TRUE,
                             !.group_row_index_start = b.group_row_index_end,
                             !.group_row_index_end = b.group_changed_row_indices[1] + 1]
         ELSE [b EXCEPT !.group_changed = FALSE]

\* TableBandElement.is_printed
TableBandElement_is_printed(b) == b.print_if_result /\ (~b.group_expression \/ b.group_changed)

\* the heights of the cells of the band container, with the band height
RECURSIVE MaxCellHeight(_, _, _)
MaxCellHeight(b, k, m) ==
    IF k > Len(b.container.doc_elements) THEN m
    ELSE MaxCellHeight(b, k + 1, Max(m, b.es[b.container.doc_elements[k]].total_height))

SetCellHeights(b, max_height) ==
    [b EXCEPT !.es = [id \in DOMAIN b.es |-> IF InSeq(b.container.doc_elements, id)
                                                THEN set_height(b.es[id], max_height)
                                                ELSE b.es[id]]]

PreparedBand(b, r) == [b EXCEPT !.es = r.elems, !.container = r.container]

\* create_render_elements of a band: the container is prepared and every
\* cell is set to the height of the highest cell, or the render elements of
\* the previous page are cleared
BandContainerReady(b) ==
    IF b.prepare_container
    THEN SetCellHeights(PreparedBand(b, Container_prepare(b.es, b.container)),
                        MaxCellHeight(PreparedBand(b, Container_prepare(b.es, b.container)),
                                      1, b.height))
    ELSE [b EXCEPT !.container.render_elements = <<>>, !.container.render_bottom = 0]

\* variant: a band that must stay on one page is tried again on the next page
\* also when it was at the top of the page
BandRendered_Deferred(b, offset_y, available_height) ==
    IF b.rendering_complete
    THEN IF b.height - b.container.max_bottom > 0
         THEN IF b.height - b.container.max_bottom <= available_height
              THEN [band |-> [b EXCEPT !.prepare_container = TRUE,
                                       !.container.render_bottom =
                                           @ + (b.height - b.container.max_bottom)],
                    error |-> ""]
              ELSE [band |-> [b EXCEPT !.rendering_complete = FALSE,
                                       !.prepare_container = FALSE,
                                       !.container.render_bottom = @ + available_height],
                    error |-> ""]
         ELSE [band |-> [b EXCEPT !.prepare_container = TRUE], error |-> ""]
    ELSE IF b.always_print_on_same_page
         THEN [band |-> [b EXCEPT !.prepare_container = TRUE],
               error |-> ""]
         ELSE [band |-> [b EXCEPT !.prepare_container = FALSE], error |-> ""]

\* the end of create_render_elements of a band: the minimum height of a
\* complete band, the retry of a band that is not complete
BandRendered(b, offset_y, available_height) ==
    IF b.rendering_complete
    THEN IF b.height - b.container.max_bottom > 0
         THEN IF b.height - b.container.max_bottom <= available_height
              THEN [band |-> [b EXCEPT !.prepare_container = TRUE,
                                       !.container.render_bottom =
                                           @ + (b.height - b.container.max_bottom)],
                    error |-> ""]
              ELSE [band |-> [b EXCEPT !.rendering_complete = FALSE,
                                       !.prepare_container = FALSE,
                                       !.container.render_bottom = @ + available_height],
                    error |-> ""]
         ELSE [band |-> [b EXCEPT !.prepare_container = TRUE], error |-> ""]
    ELSE IF b.always_print_on_same_page
         THEN [band |-> [b EXCEPT !.prepare_container = TRUE],
               error |-> IF offset_y = 0 THEN "errorMsgSectionBandNotOnSamePage" ELSE ""]
         ELSE [band |-> [b EXCEPT !.prepare_container = FALSE], error |-> ""]

\* cr is the result of container.create_render_elements
BandContainerRendered(b, cr, offset_y, available_height) ==
    IF cr.error # ""
    THEN [band |-> [b EXCEPT !.es = cr.elems, !.container = cr.container], error |-> cr.error]
    ELSE BandRendered([b EXCEPT !.es = cr.elems, !.container = cr.container,
                                !.rendering_complete = cr.complete],
                      offset_y, available_height)

RenderBandContainer(b, offset_y, container_top, available_height) ==
    BandContainerRendered(b, create_render_elements(b.es, b.container, container_top + offset_y,
                                                    available_height),
                          offset_y, available_height)

\* TableBandElement.create_render_elements.  Result: the band and the error
TableBandElement_create_render_elements(b, offset_y, container_top, container_height) ==
    IF b.always_print_on_same_page /\ container_height - offset_y < b.height
    THEN BandRendered([b EXCEPT !.rendering_complete = FALSE], offset_y,
                      container_height - offset_y)
    ELSE RenderBandContainer(BandContainerReady(b), offset_y, container_top,
                             container_height - offset_y)

\* ------------------------------------------------------------------ elements.py, FrameElement
\* es is the sequence of the elements of the linked container, a Frame:
\* a container without page breaks
FrameElement(height, es, border, shrink_to_content_height) ==
    [height |-> height, border_style |-> border,
     shrink_to_content_height |-> shrink_to_content_height,
     next_page_rendering_complete |-> FALSE, prev_page_content_height |-> 0,
     render_element_type |-> "none",
     first_render_element |-> TRUE, rendering_complete |-> FALSE,
     render_y |-> 0, render_bottom |-> 0,
     es |-> es,
     container |-> Container_add_all(NewContainer(FALSE, height), [k \in 1..Len(es) |-> k], 1)]

BorderStyle(border_top, border_bottom, border_width) ==
    [border_top |-> border_top, border_bottom |-> border_bottom, border_width |-> border_width]

\* FrameElement.get_render_bottom
FrameElement_get_render_bottom(f) ==
    LET h1 == f.container.render_bottom
              + (IF f.border_style.border_top /\ f.render_element_type = "none"
                 THEN f.border_style.border_width ELSE 0)
              + (IF f.border_style.border_bottom THEN f.border_style.border_width ELSE 0)
    IN IF f.render_element_type = "none" /\ ~f.shrink_to_content_height
       THEN Max(f.height, h1) ELSE h1

\* FrameElement.prepare
FrameElement_prepare(f) ==
    [f EXCEPT !.es = Container_prepare(f.es, f.container).elems,
              !.container = Container_prepare(f.es, f.container).container,
              !.next_page_rendering_complete = FALSE,
              !.prev_page_content_height = 0,
              !.render_element_type = "none"]

\* rendering.py, FrameRenderElement and add_elements
FrameRenderElement(f, render_y, render_element_type, height) ==
    [id |-> 1, render_y |-> render_y, render_bottom |-> render_y + height,
     elements |-> f.container.render_elements, render_element_type |-> render_element_type]

\* the height left for the elements of the frame
FrameContentHeight(f, container_height) ==
    container_height
        - (IF f.border_style.border_top /\ f.render_element_type = "none"
           THEN f.border_style.border_width ELSE 0)
        - (IF f.border_style.border_bottom THEN f.border_style.border_width ELSE 0)

\* a result of FrameElement.get_next_render_element: the frame, the returned
\* render element and flag, the raised error, and from the first call what
\* the container returned and the height that was needed
FrameResult(f, slice, complete, err, layout_complete, needed_height) ==
    [frame |-> f, slice |-> slice, complete |-> complete, error |-> err,
     layout_complete |-> layout_complete, needed_height |-> needed_height]

\* the frame with the state of its container after create_render_elements
FrameRendered(f, cr) == [f EXCEPT !.es = cr.elems, !.container = cr.container]

\* variant: a frame that does not fit is begun wherever it is
FrameFirstAttempt_Anywhere(f, rendering_complete, offset_y, available_height, content_height) ==
    IF rendering_complete /\ FrameElement_get_render_bottom(f) <= available_height
    THEN FrameResult([f EXCEPT !.rendering_complete = TRUE,
                               !.render_bottom = offset_y + FrameElement_get_render_bottom(f),
                               !.render_element_type = "complete"],
                     FrameRenderElement(f, offset_y, "complete", FrameElement_get_render_bottom(f)),
                     TRUE, "", rendering_complete, FrameElement_get_render_bottom(f))
    ELSE FrameResult([f EXCEPT !.render_bottom = offset_y + available_height,
                               !.render_element_type = "first"],
                     FrameRenderElement(f, offset_y, "first", available_height),
                     FALSE, "", rendering_complete, FrameElement_get_render_bottom(f))

\* the first call, after the container has created its render elements
FrameFirstAttempt(f, rendering_complete, offset_y, available_height, content_height) ==
    IF rendering_complete /\ FrameElement_get_render_bottom(f) <= available_height
    THEN FrameResult([f EXCEPT !.rendering_complete = TRUE,
                               !.render_bottom = offset_y + FrameElement_get_render_bottom(f),
                               !.render_element_type = "complete"],
                     FrameRenderElement(f, offset_y, "complete", FrameElement_get_render_bottom(f)),
                     TRUE, "", rendering_complete, FrameElement_get_render_bottom(f))
    ELSE IF offset_y = 0
    THEN FrameResult([f EXCEPT !.render_bottom = offset_y + available_height,
                               !.render_element_type = "first"],
                     FrameRenderElement(f, offset_y, "first", available_height),
                     FALSE, "", rendering_complete, FrameElement_get_render_bottom(f))
    ELSE FrameResult([f EXCEPT !.next_page_rendering_complete = rendering_complete,
                               !.prev_page_content_height = content_height],
                     NoSlice, FALSE, "", rendering_complete, FrameElement_get_render_bottom(f))

\* the end of a later call: the kind of the slice and its height
FrameSlice(f, offset_y, container_height) ==
    LET f1 == [f EXCEPT !.render_bottom = IF f.rendering_complete
                                           THEN offset_y + FrameElement_get_render_bottom(f)
                                           ELSE offset_y + container_height,
                        !.render_element_type =
                            IF ~f.rendering_complete
                            THEN IF f.render_element_type = "none" THEN "first" ELSE "between"
                            ELSE IF f.render_element_type = "none" THEN "complete" ELSE "last"]
    IN FrameResult(f1, FrameRenderElement(f1, offset_y, f1.render_element_type,
                                          FrameElement_get_render_bottom(f1)),
                   f1.rendering_complete, "", f1.rendering_complete, 0)

\* a later call whose container creates render elements
FrameContinued(f, cr, offset_y, container_height) ==
    IF cr.error # ""
    THEN FrameResult(FrameRendered(f, cr), NoSlice, FALSE, cr.error, FALSE, 0)
    ELSE FrameSlice([FrameRendered(f, cr) EXCEPT !.rendering_complete = cr.complete],
                    offset_y, container_height)

\* a call after the first one
FrameNextAttempt(f, offset_y, container_top, container_height, content_height) ==
    IF f.render_element_type = "none"
    THEN IF content_height = f.prev_page_content_height
         THEN FrameSlice([f EXCEPT !.rendering_complete = f.next_page_rendering_complete],
                         offset_y, container_height)
         ELSE FrameContinued(f, create_render_elements(
                                    Container_prepare(f.es, f.container).elems,
                                    Container_prepare(f.es, f.container).container,
                                    container_top, content_height),
                             offset_y, container_height)
    ELSE FrameContinued(f, create_render_elements(
                               f.es, [f.container EXCEPT !.render_elements = <<>>,
                                                         !.render_bottom = 0],
                               container_top, content_height),
                        offset_y, container_height)

FrameFirstRendered(f, cr, offset_y, available_height, content_height) ==
    IF cr.error # ""
    THEN FrameResult(FrameRendered(f, cr), NoSlice, FALSE, cr.error, FALSE, 0)
    ELSE FrameFirstAttempt(FrameRendered(f, cr), cr.complete, offset_y, available_height,
                           content_height)

\* FrameElement.get_next_render_element
FrameElement_get_next_render_element(f, offset_y, container_top, container_height) ==
    IF f.first_render_element
    THEN FrameFirstRendered([f EXCEPT !.render_y = offset_y, !.first_render_element = FALSE],
                            create_render_elements(f.es, f.container, container_top + offset_y,
                                                   FrameContentHeight(f, container_height)),
                            offset_y, container_height - offset_y,
                            FrameContentHeight(f, container_height))
    ELSE FrameNextAttempt([f EXCEPT !.render_y = offset_y], offset_y, container_top,
                          container_height, FrameContentHeight(f, container_height))

\* ------------------------------------------------------------------ elements.py, SectionBandElement
\* es is the sequence of the elements of the linked container; the container
\* of a header or a footer band does not allow page breaks
SectionBandElement(id, band_type, height, es, flags) ==
    [id |-> id, band_type |-> band_type, height |-> height,
     repeat_header |-> band_type = "header" /\ flags.repeat_header,
     always_print_on_same_page |-> IF band_type = "header" THEN TRUE
                                   ELSE flags.always_print_on_same_page,
     shrink_to_content_height |-> flags.shrink_to_content_height,
     es |-> es,
     container |-> Container_add_all(NewContainer(band_type = "content", height),
                                     [k \in 1..Len(es) |-> k], 1),
     rendering_complete |-> FALSE, prepare_container |-> TRUE]

NoSectionFlags ==
    [repeat_header |-> FALSE, always_print_on_same_page |-> FALSE,
     shrink_to_content_height |-> FALSE]

\* the end of SectionBandElement.create_render_elements
SectionBandRendered(b, offset_y, available_height) ==
    IF b.rendering_complete
    THEN IF ~b.shrink_to_content_height /\ b.height - b.container.max_bottom > 0
         THEN IF b.height - b.container.max_bottom <= available_height
              THEN [band |-> [b EXCEPT !.prepare_container = TRUE,
                                       !.container.render_bottom =
                                           @ + (b.height - b.container.max_bottom)],
                    error |-> ""]
              ELSE [band |-> [b EXCEPT !.rendering_complete = FALSE,
                                       !.prepare_container = FALSE,
                                       !.container.render_bottom = @ + available_height],
                    error |-> ""]
         ELSE [band |-> [b EXCEPT !.prepare_container = TRUE], error |-> ""]
    ELSE IF b.always_print_on_same_page
         THEN [band |-> [b EXCEPT !.prepare_container = TRUE],
               error |-> IF offset_y = 0 THEN "errorMsgSectionBandNotOnSamePage" ELSE ""]
         ELSE [band |-> [b EXCEPT !.prepare_container = FALSE], error |-> ""]

\* the container is prepared, or the render elements of the previous page
\* are cleared
SectionBandContainerReady(b) ==
    IF b.prepare_container
    THEN PreparedBand(b, Container_prepare(b.es, b.container))
    ELSE [b EXCEPT !.container.render_elements = <<>>, !.container.render_bottom = 0]

\* cr is the result of container.create_render_elements; a manual page break
\* in a band that must stay on one page is an error
SectionBandContainerRendered(b, cr, offset_y, available_height) ==
    IF cr.error # ""
    THEN [band |-> [b EXCEPT !.es = cr.elems, !.container = cr.container], error |-> cr.error]
    ELSE IF cr.container.manual_page_break /\ b.always_print_on_same_page
    THEN [band |-> [b EXCEPT !.es = cr.elems, !.container = cr.container,
                             !.rendering_complete = cr.complete],
          error |-> "errorMsgSectionBandPageBreakNotAllowed"]
    ELSE SectionBandRendered([b EXCEPT !.es = cr.elems, !.container = cr.container,
                                       !.rendering_complete = cr.complete],
                             offset_y, available_height)

\* SectionBandElement.create_render_elements.  Result: the band and the error
SectionBandElement_create_render_elements(b, offset_y, container_top, container_height) ==
    IF /\ b.always_print_on_same_page /\ ~b.shrink_to_content_height
       /\ container_height - offset_y < b.height
    THEN SectionBandRendered([b EXCEPT !.rendering_complete = FALSE], offset_y,
                             container_height - offset_y)
    ELSE SectionBandContainerRendered(
             SectionBandContainerReady(b),
             create_render_elements(SectionBandContainerReady(b).es,
                                    SectionBandContainerReady(b).container,
                                    container_top + offset_y, container_height - offset_y),
             offset_y, container_height - offset_y)

\* rendering.py, SectionRenderElement
SectionRenderElement(render_y) ==
    [id |-> 1, render_y |-> render_y, render_bottom |-> render_y, height |-> 0, bands |-> <<>>]

\* SectionRenderElement.add_section_band
add_section_band(re, section_band, background_color) ==
    IF section_band.rendering_complete \/ ~section_band.always_print_on_same_page
    THEN [re EXCEPT !.bands = Append(@, [height |-> section_band.container.render_bottom,
                                         background_color |-> background_color,
                                         elements |-> section_band.container.render_elements,
                                         band_type |-> section_band.band_type,
                                         band |-> section_band.id]),
                    !.height = @ + section_band.container.render_bottom,
                    !.render_bottom = @ + section_band.container.render_bottom]
    ELSE re

\* a call of add_section_band with the arguments behind self: the method has
\* two parameters without a default, a call with fewer arguments raises
\* TypeError before the body is entered
Call_add_section_band(re, arguments) ==
    IF Len(arguments) < 2 THEN [re |-> re, error |-> "TypeError"]
    ELSE [re |-> add_section_band(re, arguments[1], arguments[2]), error |-> ""]

\* ------------------------------------------------------------------ elements.py, SectionElement
\* a row of the data source is the reference to its data map; rows is set
\* by prepare
SectionElement(header, content, footer) ==
    [header |-> header, content |-> content, footer |-> footer,
     print_header |-> header # NoBand,
     rows |-> <<>>, row_count |-> 0, row_index |-> -1,
     rendering_complete |-> FALSE, render_y |-> 0, render_bottom |-> 0]

Context_of(r) == [stack |-> r.stack, data |-> r.data, id |-> r.id]

\* the loop of SectionElement.prepare with only_verify: the band's prepare
\* does nothing
RECURSIVE SectionVerifyRows(_, _)
SectionVerifyRows(s, ctx) ==
    IF s.row_index < s.row_count
    THEN SectionVerifyRows([s EXCEPT !.row_index = @ + 1],
                           Context_of(pop_context(push_context(ctx, {}, s.rows[s.row_index + 1],
                                                               <<>>))))
    ELSE [section |-> s, ctx |-> ctx]

\* SectionElement.prepare with a data source that is a list of rows
SectionElement_prepare(s, rows, ctx, only_verify) ==
    IF only_verify
    THEN SectionVerifyRows([s EXCEPT !.rows = rows, !.row_count = Len(rows), !.row_index = 0],
                           ctx)
    ELSE [section |-> [s EXCEPT !.rows = rows, !.row_count = Len(rows), !.row_index = 0],
          ctx |-> ctx]

\* S holds the local variables of a get_next_render_element call: the
\* section s, the Context ctx, the render element re, returned once the call
\* has returned or raised, the returned flag, the raised error, and the row
\* at which the content band's container had set manual_page_break.
SectionReturn(S, err) == [S EXCEPT !.returned = TRUE, !.error = err]

\* the row after add_section_band
SectionRowAdded(S) ==
    IF ~S.s.content.rendering_complete THEN SectionReturn(S, "")
    ELSE LET page_break == S.s.content.container.manual_page_break
             r == Container_reset(S.s.content.es, S.s.content.container)
             S1 == [S EXCEPT !.s.row_index = @ + 1,
                             !.s.content.es = r.elems,
                             !.s.content.container = r.container]
         IN IF page_break /\ S1.s.row_index < S1.s.row_count
            THEN SectionReturn(S1, "") ELSE S1

\* the row after create_render_elements of the content band: pop_context
\* and add_section_band(self.content)
SectionRowRendered(S, br) ==
    IF br.error # ""
    THEN SectionReturn([S EXCEPT !.s.content = br.band], br.error)
    ELSE LET S1 == [S EXCEPT !.s.content = br.band,
                             !.ctx = Context_of(pop_context(S.ctx)),
                             !.page_break_row = IF br.band.container.manual_page_break
                                                   /\ S.page_break_row = None
                                                THEN S.s.row_index ELSE S.page_break_row]
             a == Call_add_section_band(S.re, <<br.band>>)
         IN IF a.error # "" THEN SectionReturn(S1, a.error)
            ELSE SectionRowAdded([S1 EXCEPT !.re = a.re])

\* one row of the loop: push_context and create_render_elements
SectionRowStep(S, offset_y, container_top, container_height) ==
    LET S1 == [S EXCEPT !.ctx = Context_of(push_context(S.ctx, {}, S.s.rows[S.s.row_index + 1],
                                                        <<>>))]
    IN SectionRowRendered(S1, SectionBandElement_create_render_elements(
                                  S.s.content, offset_y + S.re.height, container_top,
                                  container_height))

RECURSIVE SectionRows(_, _, _, _)
SectionRows(S, offset_y, container_top, container_height) ==
    IF S.returned \/ S.s.row_index >= S.s.row_count THEN S
    ELSE SectionRows(SectionRowStep(S, offset_y, container_top, container_height),
                     offset_y, container_top, container_height)

\* the header: create_render_elements and add_section_band(self.header)
SectionHeader(S, offset_y, container_top, container_height) ==
    IF ~S.s.print_header THEN S
    ELSE LET br == SectionBandElement_create_render_elements(S.s.header, offset_y,
                                                             container_top, container_height)
             a == Call_add_section_band(S.re, <<br.band>>)
         IN IF br.error # "" THEN SectionReturn([S EXCEPT !.s.header = br.band], br.error)
            ELSE IF a.error # "" THEN SectionReturn([S EXCEPT !.s.header = br.band], a.error)
            ELSE IF ~br.band.rendering_complete
            THEN SectionReturn([S EXCEPT !.s.header = br.band, !.re = a.re], "")
            ELSE [S EXCEPT !.s.header = br.band, !.re = a.re,
                           !.s.print_header = br.band.repeat_header]

\* the footer and the end of the call
SectionFooter(S, offset_y, container_top, container_height) ==
    IF S.returned THEN S
    ELSE IF S.s.footer = NoBand
    THEN [S EXCEPT !.returned = TRUE, !.complete = TRUE, !.s.rendering_complete = TRUE,
                   !.s.render_bottom = @ + S.re.height]
    ELSE LET br == SectionBandElement_create_render_elements(
                       S.s.footer, offset_y + S.re.height, container_top, container_height)
             a == Call_add_section_band(S.re, <<br.band>>)
         IN IF br.error # "" THEN SectionReturn([S EXCEPT !.s.footer = br.band], br.error)
            ELSE IF a.error # "" THEN SectionReturn([S EXCEPT !.s.footer = br.band], a.error)
            ELSE IF ~br.band.rendering_complete
            THEN SectionReturn([S EXCEPT !.s.footer = br.band, !.re = a.re], "")
            ELSE [S EXCEPT !.s.footer = br.band, !.re = a.re, !.returned = TRUE,
                           !.complete = TRUE, !.s.rendering_complete = TRUE,
                           !.s.render_bottom = @ + a.re.height]

\* SectionElement.get_next_render_element
SectionElement_get_next_render_element(s, ctx, offset_y, container_top, container_height) ==
    SectionFooter(
        SectionRows(
            SectionHeader([s |-> [s EXCEPT !.render_y = offset_y, !.render_bottom = offset_y],
                           ctx |-> ctx, re |-> SectionRenderElement(offset_y),
                           returned |-> FALSE, complete |-> FALSE, error |-> "",
                           page_break_row |-> None],
                          offset_y, container_top, container_height),
            offset_y, container_top, container_height),
        offset_y, container_top, container_height)

\* the loop of SectionElement.render_spreadsheet: push_context, the content
\* band's container is prepared and rendered, the next row
RECURSIVE SectionSheetRows(_, _)
SectionSheetRows(s, ctx) ==
    IF s.row_index < s.row_count
    THEN SectionSheetRows(
             [s EXCEPT !.row_index = @ + 1,
                       !.content = PreparedBand(s.content,
                                                Container_prepare(s.content.es,
                                                                  s.content.container))],
             Context_of(push_context(ctx, {}, s.rows[s.row_index + 1], <<>>)))
    ELSE [section |-> s, ctx |-> ctx]

\* SectionElement.render_spreadsheet
SectionElement_render_spreadsheet(s, ctx) == SectionSheetRows(s, ctx)

\* ------------------------------------------------------------------ elements.py, TableElement
\* a row of the data source is the record [g |-> value]; rows is set by prepare
TableElement(y, header, content_rows, footer) ==
    [y |-> y, header |-> header, content_rows |-> content_rows, footer |-> footer,
     has_table_band_group |-> \E k \in DOMAIN content_rows : content_rows[k].group_expression,
     print_header |-> FALSE, print_footer |-> FALSE,
     rows |-> <<>>, row_count |-> 0, row_index |-> -1, content_row_index |-> -1,
     render_y |-> 0, render_bottom |-> 0,
     first_render_element |-> TRUE, rendering_complete |-> FALSE]

\* the while loop of init_group_rows for one group band
RECURSIVE GroupRowsLoop(_, _, _)
GroupRowsLoop(b, rows, row_index) ==
    IF row_index >= Len(rows) THEN b
    ELSE GroupRowsLoop(
             test_group_changed(
                 set_next_group_expression(b, row_index + 1 < Len(rows),
                     IF row_index + 1 < Len(rows) THEN rows[row_index + 2].g ELSE None),
                 row_index),
             rows, row_index + 1)

\* TableElement.init_group_rows
init_group_rows(t) ==
    IF t.has_table_band_group /\ t.row_count > 0
    THEN [t EXCEPT !.content_rows =
             [k \in DOMAIN t.content_rows |->
                 IF t.content_rows[k].group_expression
                 THEN GroupRowsLoop(
                          set_next_group_expression(
                              [t.content_rows[k] EXCEPT !.group_changed_row_indices = <<>>],
                              TRUE, t.rows[1].g),
                          t.rows, 0)
                 ELSE t.content_rows[k]]]
    ELSE t

\* TableElement.prepare for the PDF rendering: rows is the value of the data
\* source, params the parameters the cells can refer to
TableElement_prepare(t, rows, params) ==
    init_group_rows(
        [t EXCEPT !.print_header = t.header # NoBand,
                  !.print_footer = t.footer # NoBand,
                  !.rows = rows, !.row_count = Len(rows),
                  !.row_index = 0, !.content_row_index = 0,
                  !.header = IF t.header # NoBand THEN set_printed_cells(t.header, params)
                             ELSE t.header,
                  !.content_rows = IF Len(rows) > 0
                                   THEN [k \in DOMAIN t.content_rows |->
                                            set_printed_cells(t.content_rows[k], params)]
                                   ELSE t.content_rows,
                  !.footer = IF t.footer # NoBand THEN set_printed_cells(t.footer, params)
                             ELSE t.footer])

\* TableElement.is_rendering_complete
is_rendering_complete(t) ==
    /\ t.row_index >= t.row_count
    /\ ~t.print_footer
    /\ t.row_index > 0 => \A k \in DOMAIN t.content_rows : t.content_rows[k].rendering_complete

\* rendering.py, TableRenderElement and add_band: a band of the slice records
\* the band it was made of and the row
TableRenderElement(render_y) ==
    [id |-> 1, render_y |-> render_y, render_bottom |-> render_y, height |-> 0, bands |-> <<>>]

add_band(re, band, row_index) ==
    IF band.rendering_complete \/ ~band.always_print_on_same_page
    THEN [re EXCEPT !.bands = Append(@, [height |-> band.container.render_bottom,
                                         elements |-> band.container.render_elements,
                                         band_type |-> band.band_type, band |-> band.id,
                                         row_index |-> row_index]),
                    !.height = @ + band.container.render_bottom,
                    !.render_bottom = @ + band.container.render_bottom]
    ELSE re

\* TableElement.get_next_render_element.  T holds the local variables of the
\* call: the table t, the render element re, the loop position k in
\* content_rows (0 before a row is begun), done once the call has returned
\* from inside the loop, and the error it raised.
TableReturn(T) == [table |-> T.t, slice |-> T.re, complete |-> FALSE, error |-> T.error]

\* the end of the call: rendering_complete, the empty render element
TableFinish(t, re) ==
    IF re.bands = <<>>
    THEN [table |-> [t EXCEPT !.rendering_complete = @ \/ is_rendering_complete(t)],
          slice |-> NoSlice,
          complete |-> t.rendering_complete \/ is_rendering_complete(t), error |-> ""]
    ELSE [table |-> [t EXCEPT !.rendering_complete = @ \/ is_rendering_complete(t),
                              !.render_bottom = re.render_bottom],
          slice |-> re,
          complete |-> t.rendering_complete \/ is_rendering_complete(t), error |-> ""]

\* variant: the footer stays to be printed
FooterAdded_Again(t, re) ==
    IF ~t.footer.rendering_complete
    THEN [table |-> t, slice |-> re, complete |-> FALSE, error |-> ""]
    ELSE TableFinish(t, re)

\* the footer was added to the render element
FooterAdded(t, re) ==
    IF ~t.footer.rendering_complete
    THEN [table |-> t, slice |-> re, complete |-> FALSE, error |-> ""]
    ELSE TableFinish([t EXCEPT !.print_footer = FALSE], re)

FooterRendered(T, r) ==
    IF r.error # ""
    THEN [table |-> [T.t EXCEPT !.footer = r.band], slice |-> T.re, complete |-> FALSE,
          error |-> r.error]
    ELSE FooterAdded([T.t EXCEPT !.footer = r.band], add_band(T.re, r.band, -1))

\* the statements behind the loop over the rows
TableAfterRows(T, offset_y, container_top, container_height) ==
    IF T.done THEN TableReturn(T)
    ELSE IF T.t.row_index >= T.t.row_count /\ T.t.print_footer
         THEN FooterRendered(T, TableBandElement_create_render_elements(
                                    T.t.footer, offset_y + T.re.height, container_top,
                                    container_height))
         ELSE TableFinish(T.t, T.re)

\* the end of the pass for one content band; pop(0) of an empty list raises
\* the IndexError of the interpreter
ContentRowDone(T, b) ==
    IF b.rendering_complete /\ b.group_changed /\ b.group_changed_row_indices = <<>>
    THEN [T EXCEPT !.t.content_rows[T.k] = b, !.done = TRUE, !.error = "IndexError"]
    ELSE [T EXCEPT !.t.content_rows[T.k] = update_group_changed_row_indices(b),
                   !.t.content_row_index = @ + 1, !.k = @ + 1]

\* the band b was rendered and added to the render element
ContentRowAdded(T, b) ==
    IF ~b.rendering_complete
    THEN [T EXCEPT !.t.content_rows[T.k] = b, !.done = TRUE]
    ELSE IF b.page_break /\ ~b.before_group /\ T.t.row_index < T.t.row_count - 1
         THEN [T EXCEPT !.t.content_rows[T.k] = b, !.t.content_row_index = @ + 1,
                        !.done = TRUE]
         ELSE ContentRowDone(T, b)

ContentRowRendered(T, r) ==
    IF r.error # ""
    THEN [T EXCEPT !.t.content_rows[T.k] = r.band, !.done = TRUE, !.error = r.error]
    ELSE ContentRowAdded([T EXCEPT !.re = add_band(T.re, r.band, T.t.row_index)], r.band)

\* b is the content band after content_row.prepare
ContentRowPrepared(T, b, offset_y, container_top, container_height) ==
    IF TableBandElement_is_printed(b)
    THEN IF b.page_break /\ b.before_group /\ T.t.row_index # T.first_render_row_index
         THEN [T EXCEPT !.t.content_rows[T.k] = b, !.done = TRUE]
         ELSE ContentRowRendered(T, TableBandElement_create_render_elements(
                                        b, offset_y + T.re.height, container_top,
                                        container_height))
    ELSE ContentRowDone(T, [b EXCEPT !.rendering_complete = TRUE])

\* one pass of the loop over content_rows
ContentRowStep(T, offset_y, container_top, container_height) ==
    IF \/ ~T.first_row_on_page
       \/ T.t.content_row_index >= T.first_content_row_index
       \/ T.t.content_rows[T.k].repeat_group_header
    THEN ContentRowPrepared(
             T,
             IF T.t.content_rows[T.k].repeat_group_header /\ T.first_row_on_page
             THEN [TableBandElement_prepare(T.t.content_rows[T.k], T.t.row_index)
                   EXCEPT !.group_changed = TRUE]
             ELSE TableBandElement_prepare(T.t.content_rows[T.k], T.t.row_index),
             offset_y, container_top, container_height)
    ELSE ContentRowDone(T, T.t.content_rows[T.k])

\* the loop over the rows and, inside, over content_rows
RECURSIVE TableLoop(_, _, _, _)
TableLoop(T, offset_y, container_top, container_height) ==
    IF T.done THEN T
    ELSE IF T.k = 0
    THEN IF T.t.row_index < T.t.row_count
         THEN TableLoop([T EXCEPT !.t.content_row_index = 0, !.k = 1],
                        offset_y, container_top, container_height)
         ELSE T
    ELSE IF T.k > Len(T.t.content_rows)
    THEN TableLoop([T EXCEPT !.t.row_index = @ + 1, !.first_row_on_page = FALSE, !.k = 0],
                   offset_y, container_top, container_height)
    ELSE TableLoop(ContentRowStep(T, offset_y, container_top, container_height),
                   offset_y, container_top, container_height)

TableRows(t, re, offset_y, container_top, container_height) ==
    TableAfterRows(
        TableLoop([t |-> t, re |-> re, first_render_row_index |-> t.row_index,
                   first_content_row_index |-> t.content_row_index,
                   first_row_on_page |-> TRUE, k |-> 0, done |-> FALSE, error |-> ""],
                  offset_y, container_top, container_height),
        offset_y, container_top, container_height)

\* variant: the header is printed once, whatever repeat_header says
HeaderAdded_Once(t) == [t EXCEPT !.print_header = FALSE]

\* the header was added to the render element
HeaderAdded(t) == IF ~t.header.repeat_header THEN [t EXCEPT !.print_header = FALSE] ELSE t

\* r is the result of header.create_render_elements, or the header as it is
HeaderRendered(t, r, offset_y, container_top, container_height) ==
    IF r.error # ""
    THEN [table |-> [t EXCEPT !.header = r.band], slice |-> TableRenderElement(offset_y),
          complete |-> FALSE, error |-> r.error]
    ELSE IF ~r.band.rendering_complete
    THEN [table |-> [t EXCEPT !.header = r.band],
          slice |-> add_band(TableRenderElement(offset_y), r.band, -1),
          complete |-> FALSE, error |-> ""]
    ELSE TableRows(HeaderAdded([t EXCEPT !.header = r.band]),
                   add_band(TableRenderElement(offset_y), r.band, -1),
                   offset_y, container_top, container_height)

TableHeader(t, offset_y, container_top, container_height) ==
    IF t.print_header
    THEN HeaderRendered(t,
             IF ~t.header.rendering_complete
             THEN TableBandElement_create_render_elements(t.header, offset_y, container_top,
                                                          container_height)
             ELSE [band |-> t.header, error |-> ""],
             offset_y, container_top, container_height)
    ELSE TableRows(t, TableRenderElement(offset_y), offset_y, container_top, container_height)

\* Result: the table, the render element (or NoSlice), complete, the error
TableElement_get_next_render_element(t, offset_y, container_top, container_height) ==
    IF is_rendering_complete(t)
    THEN [table |-> [t EXCEPT !.render_y = offset_y, !.render_bottom = offset_y,
                              !.rendering_complete = TRUE],
          slice |-> NoSlice, complete |-> TRUE, error |-> ""]
    ELSE TableHeader([t EXCEPT !.render_y = offset_y, !.render_bottom = offset_y],
                     offset_y, container_top, container_height)

\* ------------------------------------------------------------------ Spec: pagination of one container
Init ==
    /\ \E n \in 1..MaxElems : elems \in Templates(n)
    /\ \E allow_page_break \in BOOLEAN, height \in Heights :
           container = Container_add_all(NewContainer(allow_page_break, height),
                                         [k \in 1..Len(elems) |-> k], 1)
    /\ pc = "new"
    /\ error = ""
    /\ calls = 0
    /\ pass = 1
    /\ lastCall = <<>>
    /\ pageLog = <<>>
    /\ firstLog = <<>>
    /\ IdleOutside("container")

\* content_band.prepare(context, pdf_doc)
Prepare ==
    /\ pc = "new"
    /\ LET r == Container_prepare(elems, container)
       IN /\ elems' = r.elems
          /\ container' = r.container
    /\ pc' = "ready"
    /\ calls' = 0
    /\ lastCall' = <<>>
    /\ pageLog' = <<>>
    /\ UNCHANGED <<error, pass, firstLog, outsideContainer>>

\* one page: create_render_elements(0, height, context, pdf_doc)
CreateRenderElements ==
    /\ pc = "ready"
    /\ calls < MaxCalls
    /\ LET r == create_render_elements(elems, container, 0, container.height)
       IN /\ elems' = r.elems
          /\ container' = r.container
          /\ error' = r.error
          /\ pc' = IF r.error # "" THEN "error" ELSE IF r.complete THEN "done" ELSE "ready"
          /\ lastCall' = r.log
          /\ pageLog' = Append(pageLog, r.slices)
          /\ firstLog' = IF r.error = "" /\ r.complete /\ pass = 1
                         THEN Append(pageLog, r.slices) ELSE firstLog
    /\ calls' = calls + 1
    /\ UNCHANGED <<pass, outsideContainer>>

\* reset() of a completely rendered container, before it is used again
Reset ==
    /\ pc = "done"
    /\ pass < MaxPasses
    /\ LET r == Container_reset(elems, container)
       IN /\ elems' = r.elems
          /\ container' = r.container
    /\ pc' = "new"
    /\ pass' = pass + 1
    /\ UNCHANGED <<error, calls, lastCall, pageLog, firstLog, outsideContainer>>

Next == Prepare \/ CreateRenderElements \/ Reset

Spec == Init /\ [][Next]_vars

\* ------------------------------------------------------------------ properties of Spec
CompletedBefore(log, k, p) == \E j \in 1..(k - 1) : log[j].id = p /\ log[j].complete

AtomicFits(e, h) ==
    IF e.kind = "pagebreak" THEN TRUE
    ELSE IF e.kind = "line" THEN e.height <= h
    ELSE LET t == TextElement_prepare(e)
         IN /\ t.always_print_on_same_page => t.total_height <= h
            /\ \A k \in 1..t.lines_count :
                   t.text_lines[k] + (IF k = 1 THEN t.padding_top ELSE 0)
                                   + (IF k = t.lines_count THEN t.padding_bottom ELSE 0) <= h

AllFit == \A id \in DOMAIN elems : AtomicFits(elems[id], container.height)

\* number of calls that suffices: two per element and one per text line
CallBound == 2 * Len(elems) + SumSeq([id \in DOMAIN elems |-> elems[id].content_lines])

NeverFitsAtTop(e, h) ==
    IF e.kind = "line" THEN e.height > h
    ELSE IF e.kind = "text"
         THEN e.lines_count > 0 /\ e.text_lines[1] + e.padding_top
                                   + (IF e.lines_count = 1 THEN e.padding_bottom ELSE 0) > h
         ELSE FALSE

\* C3: an element that is tried at offset 0 at the top of an empty page and
\* cannot fit there ends the pagination with the invalid size error; it is
\* not deferred to the next page.
C3_NeverFitsIsReported ==
    \A k \in 1..Len(lastCall) :
        (/\ lastCall[k].offset_y = 0
         /\ lastCall[k].outcome # "empty"
         /\ NeverFitsAtTop(elems[lastCall[k].id], container.height))
        => pc = "error" /\ error = "errorMsgInvalidSize" /\ lastCall[k].outcome = "error"

IsPrefix(s, t) == Len(s) <= Len(t) /\ \A k \in 1..Len(s) : s[k] = t[k]

\* C5: after reset and prepare a completely rendered container produces, call
\* by call, the render slices of the first pass.
C5_IdempotentReset ==
    pass > 1 => /\ pc # "error"
                /\ IsPrefix(pageLog, firstLog)
                /\ pc = "done" => pageLog = firstLog

C5_Witness ==
    /\ pass > 1 /\ pc = "done" /\ Len(pageLog) >= 2
    /\ \E k \in 1..Len(pageLog) : \E j \in 1..Len(pageLog[k]) : pageLog[k][j].type = "first"

\* C6: the offset of the first render slice of an element is not above the
\* render bottom of any of its predecessors that completed in the same call.
C6_PredecessorOffset ==
    \A k \in 1..Len(lastCall) :
        LET en == lastCall[k]
        IN (en.outcome = "rendered" /\ en.first) =>
               \A j \in 1..(k - 1) :
                   (InSeq(en.predecessors, lastCall[j].id) /\ lastCall[j].complete)
                   => en.offset_y >= lastCall[j].render_bottom

C6_Witness ==
    \E k \in 1..Len(lastCall) : \E j \in 1..(k - 1) :
        /\ lastCall[k].outcome = "rendered" /\ lastCall[k].first
        /\ InSeq(lastCall[k].predecessors, lastCall[j].id)
        /\ lastCall[j].render_bottom > elems[lastCall[j].id].bottom
        /\ lastCall[k].offset_y >= lastCall[j].render_bottom

\* the container of the scenario: available height 90, E1 at y = 0 and E2 at
\* y = 70, both printed fixed-size elements of height 60
IsTwoElementScenario ==
    /\ container.height = 90
    /\ Len(elems) = 2
    /\ \A id \in {1, 2} : elems[id].kind = "line" /\ elems[id].height = 60 /\ elems[id].print_if
    /\ elems[1].y = 0 /\ elems[2].y = 70

FixedSlice(id, render_y, height) ==
    [id |-> id, render_y |-> render_y, render_bottom |-> render_y + height,
     height |-> height, first_line |-> 0, line_count |-> 0, type |-> "complete"]

ScenarioPages ==
    (IsTwoElementScenario /\ pc # "new") =>
        /\ pc # "error"
        /\ calls = 1 => /\ pc = "ready"
                        /\ pageLog = << <<FixedSlice(1, 0, 60)>> >>
                        /\ InSeq(elems[2].predecessors, 1) \/ elems[2].predecessors = <<>>
        /\ calls >= 2 => /\ calls = 2 /\ pc = "done"
                         /\ pageLog = << <<FixedSlice(1, 0, 60)>>, <<FixedSlice(2, 0, 60)>> >>

\* the entries of a call that left their element incomplete
Incomplete(log) == { k \in 1..Len(log) : ~log[k].complete /\ log[k].outcome # "pagebreak" }

\* a call follows a call whose first incomplete element was tried but has no
\* render slice yet: that element is tried first and at offset 0
DeferredRestartsAtTop ==
    (pc = "ready" /\ calls >= 1 /\ calls' = calls + 1 /\ Incomplete(lastCall) # {}) =>
        LET k0 == CHOOSE k \in Incomplete(lastCall) : \A j \in Incomplete(lastCall) : k <= j
            en == lastCall[k0]
        IN (en.outcome = "deferred" /\ en.first) =>
               /\ Len(lastCall') >= 1
               /\ lastCall'[1].id = en.id
               /\ lastCall'[1].offset_y = 0

\* C7: in the scenario the first call renders E1 at 0..60, emits nothing for
\* E2 and returns false, the second call renders E2 at offset 0 and returns
\* true; and in every container an element that was deferred without a slice
\* as the first unfinished element of a page is placed at offset 0 on the next.
C7_DeferredElementAtTop == []ScenarioPages /\ [][DeferredRestartsAtTop]_vars

C7_Witness ==
    /\ IsTwoElementScenario /\ pc = "done" /\ calls = 2
    /\ lastCall[1].id = 2 /\ lastCall[1].offset_y = 0 /\ lastCall[1].outcome = "rendered"

\* the elements that ended in an earlier call: not in sorted_elements any more
Remaining(id) == InSeq(container.sorted_elements, id)

\* C23: after a create_render_elements call that returned false every
\* predecessor stored on an element that remains in sorted_elements is itself
\* an element that remains in sorted_elements, also when the container was
\* reset and prepared again.
C23_NoStalePredecessor ==
    (pc = "ready" /\ calls > 0) =>
        \A id \in DOMAIN elems :
            Remaining(id) =>
                \A k \in DOMAIN elems[id].predecessors : Remaining(elems[id].predecessors[k])

\* in the second use of the container an element is left whose predecessor
\* completed and whose link to it was removed
C23_Witness ==
    /\ pc = "ready" /\ calls > 0 /\ pass = 2
    /\ \E id \in DOMAIN elems, p \in DOMAIN elems :
           /\ Remaining(id) /\ ~Remaining(p)
           /\ InSeq(elems[p].successors, id)
           /\ ~InSeq(elems[id].predecessors, p)

\* SpecOrder: the same container with OrderElems elements of a few shapes, so
\* that an element can end before the stored predecessor of another one
OrderElems == 3

OrderShapes ==
    { LineElement(20, TRUE, FALSE),
      LineElement(60, TRUE, FALSE),
      LineElement(20, FALSE, TRUE),
      PageBreakElement,
      TextElement(20, 20, 3, 0, "top", FALSE, FALSE) }

OrderPlaced ==
    { [s EXCEPT !.y = y, !.bottom = IF s.kind = "pagebreak" THEN y ELSE y + s.height] :
      s \in OrderShapes, y \in Ys }

InitOrder ==
    /\ elems \in [1..OrderElems -> OrderPlaced]
    /\ \E allow_page_break \in BOOLEAN, height \in Heights :
           container = Container_add_all(NewContainer(allow_page_break, height),
                                         [k \in 1..Len(elems) |-> k], 1)
    /\ pc = "new"
    /\ error = ""
    /\ calls = 0
    /\ pass = 1
    /\ lastCall = <<>>
    /\ pageLog = <<>>
    /\ firstLog = <<>>
    /\ IdleOutside("container")

SpecOrder == InitOrder /\ [][Next]_vars

\* the order Container.prepare gave to the elements it kept: the page breaks
\* that were reached since are not in sorted_elements any more
PreparedIds ==
    SelectSeq(container.doc_elements,
              LAMBDA id : elems[id].kind # "pagebreak" \/ is_printed(elems[id]))

PreparedOrder == SortElements(elems, PreparedIds, Len(PreparedIds))

\* e ends before c starts and no page break lies between them in sorted order
EndsBefore(e, c) ==
    /\ elems[e].kind # "pagebreak" /\ elems[c].kind # "pagebreak"
    /\ elems[e].bottom <= elems[c].y
    /\ \E i, j \in DOMAIN PreparedOrder :
           /\ PreparedOrder[i] = e /\ PreparedOrder[j] = c /\ i # j
           /\ \A m \in (Min(i, j) + 1)..(Max(i, j) - 1) :
                  elems[PreparedOrder[m]].kind # "pagebreak"

\* the elements reached from c over at most n stored predecessor links
RECURSIVE ReachableFrom(_, _)
ReachableFrom(c, n) ==
    IF n = 0 THEN {}
    ELSE LET direct == {elems[c].predecessors[k] : k \in DOMAIN elems[c].predecessors}
         IN direct \cup UNION {ReachableFrom(p, n - 1) : p \in direct}

\* C24: an element c produces a render slice only in a call at the end of
\* which every element e that ends before c (no page break between them) is
\* complete, stored as predecessor of c or not; after prepare every such e
\* is reached from c through stored predecessor links.
C24_VerticalOrder ==
    /\ (pc \in {"ready", "done"} /\ calls > 0) =>
           \A k \in DOMAIN lastCall :
               lastCall[k].outcome = "rendered" =>
                   \A e \in DOMAIN elems :
                       EndsBefore(e, lastCall[k].id) => elems[e].rendering_complete
    /\ (pc = "ready" /\ calls = 0) =>
           \A c \in DOMAIN elems, e \in DOMAIN elems :
               EndsBefore(e, c) => e \in ReachableFrom(c, Len(elems))

\* an element was rendered in a call behind the one in which an element
\* completed that ends before it and was never stored as its predecessor
C24_Witness ==
    /\ pc \in {"ready", "done"} /\ calls > 1
    /\ \E k \in DOMAIN lastCall, e \in DOMAIN elems :
           /\ lastCall[k].outcome = "rendered"
           /\ EndsBefore(e, lastCall[k].id)
           /\ ~InSeq(elems[e].successors, lastCall[k].id)
           /\ \A m \in DOMAIN lastCall : lastCall[m].id # e

\* the last call reached a page break element that was not blocked
ReachedPageBreak == \E k \in DOMAIN lastCall : lastCall[k].outcome = "pagebreak"

\* C28: a create_render_elements call of a container without page breaks
\* that reaches a printed page break element ends in a ReportBroError.
C28_PageBreakIsError ==
    (pc # "new" /\ calls > 0 /\ ~container.allow_page_break /\ ReachedPageBreak) =>
        (pc = "error" /\ error # "")

\* C29: a call of a container that allows page breaks and reaches a page
\* break element whose predecessors are complete stops there: the page break
\* is the last element the call looked at, it is removed from
\* sorted_elements and manual_page_break is true on return; after a call
\* that reached no page break manual_page_break is false.
C29_ManualPageBreak ==
    (pc \in {"ready", "done"} /\ calls > 0 /\ container.allow_page_break) =>
        /\ \A k \in DOMAIN lastCall :
               lastCall[k].outcome = "pagebreak" =>
                   /\ k = Len(lastCall)
                   /\ ~Remaining(lastCall[k].id)
        /\ container.manual_page_break <=> ReachedPageBreak

\* the call ended at a page break and left elements for the next page
C29_Witness ==
    /\ pc = "ready" /\ calls > 0 /\ container.allow_page_break
    /\ ReachedPageBreak /\ container.manual_page_break
    /\ container.sorted_elements # <<>>

\* the largest render_bottom of the predecessors stored on the element of a
\* log entry, and the smallest gap between the element and one of them
PredecessorBottom(en) ==
    LET bottoms == {elems[en.predecessors[k]].render_bottom : k \in DOMAIN en.predecessors}
    IN CHOOSE b \in bottoms : \A o \in bottoms : o <= b

PredecessorGap(en) ==
    LET gaps == {elems[en.id].y - elems[en.predecessors[k]].bottom : k \in DOMAIN en.predecessors}
    IN CHOOSE g \in gaps : \A o \in gaps : g <= o

\* the entries of the last call for a printed element with stored
\* predecessors for which an offset was computed
WithPredecessors ==
    {k \in DOMAIN lastCall :
        /\ lastCall[k].predecessors # <<>>
        /\ lastCall[k].offset_y # None
        /\ lastCall[k].outcome \in {"rendered", "deferred", "error"}}

\* C30 as stated: the offset of a printed element with stored predecessors is the
\* larger of its y minus first_element_offset_y and the largest render_bottom
\* of its stored predecessors plus the smallest gap to one of them.
C30_LaterOfTwo ==
    (pc # "new" /\ calls > 0) =>
        \A k \in WithPredecessors :
            lastCall[k].offset_y =
                Max(elems[lastCall[k].id].y - lastCall[k].first_element_offset_y,
                    PredecessorBottom(lastCall[k]) + PredecessorGap(lastCall[k]))

\* C30: the offset of a printed element with stored predecessors is the
\* largest render_bottom of its stored predecessors plus the smallest gap to
\* one of them, whatever its y minus first_element_offset_y is; without
\* stored predecessors it is y minus first_element_offset_y, at least 0, for
\* the first render element and 0 behind it.
C30_PredecessorsDecide ==
    (pc # "new" /\ calls > 0) =>
        \A k \in DOMAIN lastCall :
            LET en == lastCall[k]
            IN  (en.offset_y # None /\ en.outcome \in {"rendered", "deferred", "error"}) =>
                    IF en.predecessors # <<>>
                    THEN en.offset_y = Max(PredecessorBottom(en), 0) + PredecessorGap(en)
                    ELSE en.offset_y = IF en.first
                                       THEN Max(elems[en.id].y - en.first_element_offset_y, 0)
                                       ELSE 0

\* an element with two stored predecessors was rendered above its y minus
\* first_element_offset_y
C30_Witness ==
    /\ pc # "new" /\ calls > 0
    /\ \E k \in WithPredecessors :
           /\ lastCall[k].outcome = "rendered"
           /\ Len(lastCall[k].predecessors) >= 2
           /\ lastCall[k].offset_y < elems[lastCall[k].id].y - lastCall[k].first_element_offset_y

\* ------------------------------------------------------------------ SpecTable: a table in a content band
\* the values of the group expression ${g}: a null value and a string
GroupValues == {None, 1}

Rows(n) == [1..n -> [g : GroupValues]]

NoParams == <<>>

HeaderCell == TableTextElement(20, 20, 1, 50, <<"h">>)

\* a cell with one line, and a cell whose text takes two lines
ContentCells == { TableTextElement(20, 20, 1, 50, <<"c">>),
                  TableTextElement(20, 20, 2, 50, <<"c", " ", "c">>) }

Headers ==
    {NoBand} \cup { TableBandElement(1, "header", 20, <<HeaderCell>>, FALSE, FALSE,
                                     [NoFlags EXCEPT !.repeat_header = r]) : r \in BOOLEAN }

Footers == {NoBand, TableBandElement(9, "footer", 20, <<HeaderCell>>, FALSE, FALSE, NoFlags)}

\* a band of one line, with and without alwaysPrintOnSamePage, and a band
\* whose cell grows to two lines
MainBands ==
    { TableBandElement(3, "content", 20, <<c.cell>>, FALSE, FALSE,
                       [NoFlags EXCEPT !.always_print_on_same_page = c.same_page]) :
          c \in { [cell |-> x, same_page |-> a] : x \in ContentCells, a \in BOOLEAN } \
                 { [cell |-> TableTextElement(20, 20, 2, 50, <<"c", " ", "c">>),
                    same_page |-> TRUE] } }

\* the band without a group expression in a table with a group band
GroupMainBand ==
    TableBandElement(3, "content", 20, <<TableTextElement(20, 20, 1, 50, <<"c">>)>>,
                     FALSE, FALSE, NoFlags)

GroupBand(id, before_group) ==
    TableBandElement(id, "content", 20, <<HeaderCell>>, TRUE, before_group, NoFlags)

\* the bands in front of the first band without a group expression are
\* printed before the group, the bands behind it after the group
ContentRows ==
    { <<m>> : m \in MainBands }
        \cup { <<GroupBand(2, TRUE), GroupMainBand>>, <<GroupMainBand, GroupBand(4, FALSE)>> }

TableYs == {0, 40}

TableHeights == {50, 60}

Tables ==
    { TableElement(y, h, c, f) : y \in TableYs, h \in Headers, c \in ContentRows, f \in Footers }

\* the rows of a table without a group band hold no group value
HasGroupBand(t) == \E k \in 1..Len(t.content_rows) : t.content_rows[k].group_expression

InitTable ==
    /\ table \in Tables
    /\ theight \in TableHeights
    /\ tpc = "new"
    /\ terror = ""
    /\ tcalls = 0
    /\ tpass = 1
    /\ tlog = <<>>
    /\ IdleOutside("table")

\* content_band.prepare: TableElement.prepare with the rows of the data
TablePrepare ==
    /\ tpc = "new"
    /\ \E n \in 0..MaxRows : \E rows \in Rows(n) :
           /\ HasGroupBand(table) \/ \A i \in 1..n : rows[i].g = None
           /\ table' = TableElement_prepare(table, rows, NoParams)
    /\ tpc' = "ready"
    /\ tcalls' = 0
    /\ tlog' = <<>>
    /\ UNCHANGED <<theight, terror, tpass, outsideTable>>

\* one page: the content band calls get_next_render_element of the table, at
\* the layout position on the first page and at the top on the pages behind
TableRender ==
    /\ tpc = "ready"
    /\ tcalls < MaxTableCalls
    /\ \E r \in {TableElement_get_next_render_element(
                     table, IF tcalls = 0 THEN table.y ELSE 0, 0, theight)} :
           /\ table' = r.table
           /\ terror' = r.error
           /\ tpc' = IF r.error # "" THEN "error" ELSE IF r.complete THEN "done" ELSE "ready"
           /\ tlog' = Append(tlog, IF r.error # "" THEN NoSlice ELSE r.slice)
    /\ tcalls' = tcalls + 1
    /\ UNCHANGED <<theight, tpass, outsideTable>>

\* Container.reset of the content band before it is used again
TableReset ==
    /\ tpc = "done"
    /\ tpass < MaxTablePasses
    /\ table' = [table EXCEPT !.first_render_element = TRUE, !.rendering_complete = FALSE]
    /\ tpc' = "new"
    /\ tpass' = tpass + 1
    /\ UNCHANGED <<theight, terror, tcalls, tlog, outsideTable>>

NextTable == TablePrepare \/ TableRender \/ TableReset

SpecTable == InitTable /\ [][NextTable]_vars

\* ------------------------------------------------------------------ properties of SpecTable
\* the row indices 0..N-1 at which a band is expected to be printed
TransitionRows(rows, before_group) ==
    SelectSeq([i \in 1..Len(rows) |-> i - 1],
              LAMBDA i : IF before_group
                         THEN i = 0 \/ rows[i + 1].g # rows[i].g
                         ELSE i = Len(rows) - 1 \/ rows[i + 1].g # rows[i + 2].g)

\* C4: after init_group_rows on a table with at least one row, in the first
\* pass and in a later one, the list of every group band holds exactly the
\* rows at which the group value differs from the row before (band before
\* the group, always row 0) or the row behind (band after the group, always
\* the last row).
C4_GroupTransitionRecording ==
    (tpc = "ready" /\ tcalls = 0 /\ table.row_count >= 1) =>
        \A k \in DOMAIN table.content_rows :
            table.content_rows[k].group_expression =>
                table.content_rows[k].group_changed_row_indices
                    = TransitionRows(table.rows, table.content_rows[k].before_group)

\* the calls of the current pass whose render element holds a header band
HeaderSlices ==
    { k \in 1..Len(tlog) :
        tlog[k] # NoSlice /\ \E j \in 1..Len(tlog[k].bands) : tlog[k].bands[j].band_type = "header" }

\* the calls of the current pass whose render element holds a band
ShownSlices == { k \in 1..Len(tlog) : tlog[k] # NoSlice /\ tlog[k].bands # <<>> }

HeaderIsFirstBand(k) ==
    /\ tlog[k].bands[1].band_type = "header"
    /\ \A j \in 2..Len(tlog[k].bands) : tlog[k].bands[j].band_type # "header"

\* the table of the scenario: a repeated header, one content band of one
\* line, no footer, three rows, and room for the header and two rows
IsHeaderScenario ==
    /\ table.header # NoBand /\ table.header.repeat_header /\ table.footer = NoBand
    /\ table.y = 0 /\ theight = 60 /\ table.row_count = 3
    /\ Len(table.content_rows) = 1
    /\ table.content_rows[1].es[1].content_lines = 1

\* the bands of a render element that hold render elements of cells (a
\* content band that is begun where no height is left holds none)
PrintedBands(k) == SelectSeq(tlog[k].bands, LAMBDA b : b.elements # <<>>)

BandsOf(k) == [j \in 1..Len(PrintedBands(k)) |->
                  <<PrintedBands(k)[j].band_type, PrintedBands(k)[j].row_index>>]

\* C8 as stated: with repeat_header every render element of the table holds
\* the header as its first band; without it exactly one render element holds
\* the header, the first one of the table.
C8_HeaderInEverySlice ==
    (table.header # NoBand /\ tpc \in {"ready", "done"}) =>
        IF table.header.repeat_header
        THEN \A k \in 1..Len(tlog) :
                 tlog[k] # NoSlice => tlog[k].bands # <<>> /\ HeaderIsFirstBand(k)
        ELSE tpc = "done" =>
                 /\ Cardinality(HeaderSlices) = 1
                 /\ \A k \in HeaderSlices : \A j \in 1..(k - 1) : tlog[j] = NoSlice

\* C8, amended: with repeat_header every render element of the table that
\* holds a band holds the header as its first band; without it the header is
\* the first band of the first render element that holds a band and is in no
\* other one.  In the scenario the table takes two pages: header, row 0 and
\* row 1, then header and row 2 (bands that hold cell contents).
C8_HeaderRepetition ==
    (table.header # NoBand /\ tpc \in {"ready", "done"}) =>
        /\ IF table.header.repeat_header
           THEN \A k \in ShownSlices : HeaderIsFirstBand(k)
           ELSE /\ \A k \in ShownSlices :
                       IF \A j \in ShownSlices : k <= j
                       THEN HeaderIsFirstBand(k) ELSE k \notin HeaderSlices
        /\ (IsHeaderScenario /\ tpc = "done") =>
               /\ Len(tlog) = 2
               /\ BandsOf(1) = << <<"header", -1>>, <<"content", 0>>, <<"content", 1>> >>
               /\ BandsOf(2) = << <<"header", -1>>, <<"content", 2>> >>

C8_Witness ==
    /\ tpc = "done" /\ table.header # NoBand /\ table.header.repeat_header
    /\ Cardinality(ShownSlices) >= 2
    /\ \A k \in ShownSlices : HeaderIsFirstBand(k)

\* the row indices init_group_rows records for the content band k
RecordedTransitions(k) == init_group_rows(table).content_rows[k].group_changed_row_indices

RECURSIVE BandRows(_, _)
BandRows(bands, id) ==
    IF bands = <<>> THEN <<>>
    ELSE (IF Head(bands).band = id THEN <<Head(bands).row_index>> ELSE <<>>)
         \o BandRows(Tail(bands), id)

\* the rows at which the band id was added to the render elements of the
\* calls k .. Len(tlog)
RECURSIVE PrintedRows(_, _)
PrintedRows(k, id) ==
    IF k > Len(tlog) THEN <<>>
    ELSE (IF tlog[k] = NoSlice THEN <<>> ELSE BandRows(tlog[k].bands, id))
         \o PrintedRows(k + 1, id)

\* a band that is split over two pages is in the render elements of both:
\* the consecutive entries of one row are one printed band
RECURSIVE PrintedOnce(_)
PrintedOnce(rs) ==
    IF Len(rs) <= 1 THEN rs
    ELSE IF rs[1] = rs[2] THEN PrintedOnce(Tail(rs))
    ELSE <<rs[1]>> \o PrintedOnce(Tail(rs))

\* C21: over the pages of a table every group band is added to the output
\* once for every row index that was recorded as a group transition, in the
\* order of the rows, and for no other row; the rendering does not end in
\* the IndexError of an empty list of transitions.
C21_GroupBandsPrinted ==
    /\ terror # "IndexError"
    /\ (tpc = "done" /\ table.row_count >= 1) =>
           \A k \in DOMAIN table.content_rows :
               table.content_rows[k].group_expression =>
                   PrintedOnce(PrintedRows(1, table.content_rows[k].id)) = RecordedTransitions(k)

\* TableBandElement.set_parameter_range: the range a group band puts on the
\* data source parameter while its cells are rendered
BandRange(b) == [start |-> b.group_row_index_start, end |-> b.group_row_index_end]

\* the row indices enumerated by a parameter function under that range
RangeRowIndices(b, n) == RangeItems([j \in 1..n |-> j - 1], BandRange(b))

\* the rows of the group of row i: the maximal run of consecutive rows with
\* the group value of row i (rows is indexed from 1, row indices from 0)
GroupOf(rows, i) ==
    {j \in 0..(Len(rows) - 1) :
        \A m \in (Min(i, j) + 1)..(Max(i, j) + 1) : rows[m].g = rows[i + 1].g}

SeqToSet(sq) == {sq[j] : j \in DOMAIN sq}

\* the row of the last entry of the band id in a slice, None without entry
LastBandRow(bands, id) ==
    IF BandRows(bands, id) = <<>> THEN None
    ELSE BandRows(bands, id)[Len(BandRows(bands, id))]

\* C22: whenever a group band is rendered for row i the range set on the data
\* source parameter covers exactly the rows of the group of row i, also when
\* the band is prepared again for the same row on the next page.
C22_GroupRange ==
    (tpc \in {"ready", "done"} /\ tlog # <<>> /\ tlog[Len(tlog)] # NoSlice) =>
        \A k \in DOMAIN table.content_rows :
            LET b == table.content_rows[k]
                i == LastBandRow(tlog[Len(tlog)].bands, b.id)
            IN  (b.group_expression /\ i # None) =>
                    /\ RangeRowIndices(b, table.row_count) = PrintedOnce(RangeRowIndices(b, table.row_count))
                    /\ SeqToSet(RangeRowIndices(b, table.row_count)) = GroupOf(table.rows, i)

\* the band without a group expression has id 3 in every table
MainBandRows == PrintedOnce(PrintedRows(1, 3))

RECURSIVE AllBands(_)
AllBands(k) ==
    IF k > Len(tlog) THEN <<>>
    ELSE (IF tlog[k] = NoSlice THEN <<>> ELSE tlog[k].bands) \o AllBands(k + 1)

FooterPositions == {j \in DOMAIN AllBands(1) : AllBands(1)[j].band_type = "footer"}

RowsInOrder ==
    (terror = "" /\ tpc \in {"ready", "done"}) =>
        /\ \A j \in DOMAIN MainBandRows : MainBandRows[j] = j - 1
        /\ Len(MainBandRows) <= table.row_count
        /\ Cardinality(FooterPositions) <= 1
        /\ \A j \in FooterPositions :
               /\ j = Len(AllBands(1))
               /\ Len(MainBandRows) = table.row_count
               /\ tpc = "done"
        /\ tpc = "done" =>
               /\ Len(MainBandRows) = table.row_count
               /\ table.footer # NoBand => Cardinality(FooterPositions) = 1

RowIndexGrows == tpc = "ready" => table'.row_index >= table.row_index

\* C25: over the render slices of a table the row index never decreases, the
\* band without group expression is printed once for every row in the order
\* of the rows, the footer is printed once, behind the bands of the last row,
\* and the table is complete only after that.
C25_RowsOnceInOrder == []RowsInOrder /\ [][RowIndexGrows]_vars

\* a table of MaxRows rows with a footer, complete after more than one page
C25_Witness ==
    /\ tpc = "done" /\ terror = ""
    /\ table.row_count = MaxRows /\ table.footer # NoBand
    /\ Len(tlog) >= 2
    /\ FooterPositions # {}

\* ------------------------------------------------------------------ SpecCells: the cells of a table band
\* A content band of a table whose rows hold the simple array a.  The header
\* of the table has the columns of the band.
ArrayRef == <<"$", "{", "a", "}">>

LiteralCell == TableTextElement(20, 20, 1, 50, <<"x">>)

ArrayCell == TableTextElement(20, 20, 1, 40, ArrayRef)

CellShapes ==
    {LiteralCell, [LiteralCell EXCEPT !.has_print_if = TRUE],
     ArrayCell, [ArrayCell EXCEPT !.colspan = 2]}

CellTemplates(n) == [1..n -> CellShapes]

CellBands ==
    {TableBandElement(1, "content", 20, cells, FALSE, FALSE, NoFlags) :
        cells \in UNION {CellTemplates(n) : n \in 1..MaxCells}}

\* the data of the array: -1 for None, n >= 0 for a list of n entries
ArrayData == -1..MaxEntries

ArrayOf(n, item_type) ==
    [k \in 1..n |-> IF item_type = "string" THEN <<"s">> \o Digits(k + n) ELSE k + n]

ArrayParam(item_type, pattern, data) ==
    [type |-> "simple_array", array_item_type |-> item_type, pattern |-> pattern,
     exists |-> TRUE, null |-> data = -1,
     value |-> IF data < 0 THEN <<>> ELSE ArrayOf(data, item_type)]

\* array item type and pattern of the parameter
ItemTypes == {<<"string", <<>>>>, <<"number", <<>>>>, <<"number", <<"0", ".", "0">>>>}

RowsOf(it, d) == [k \in 1..Len(d) |-> (<<"a">> :> ArrayParam(it[1], it[2], d[k]))]

CellRows(it) == {RowsOf(it, d) : d \in UNION {[1..m -> ArrayData] : m \in 0..MaxCellRows}}

CellCtx(params) == [params |-> params, pattern_locale |-> "en", pattern_currency_symbol |-> "$"]

NoShown == [row |-> 0, texts |-> <<>>]

InitCells ==
    /\ cband \in CellBands
    /\ \E it \in ItemTypes : cparams \in CellRows(it)
    /\ cpc = "new"
    /\ cpass = 0
    /\ cshown = NoShown
    /\ IdleOutside("cells")

\* TableElement.prepare, the loop over the cells of the header: the result
\* of the print condition of a column is set in the cells of the band
ColumnsVisible(b, visible) ==
    [b EXCEPT !.es = [id \in 1..Len(b.es) |->
                         IF id <= Len(b.cells) /\ ~b.es[id].inside_colspan /\ b.es[id].has_print_if
                         THEN [b.es[id] EXCEPT !.column_visible = visible[id]]
                         ELSE b.es[id]]]

\* TableElement.prepare for the band: the cells are set up in the context of
\* the first row
CellsPrepare ==
    /\ cpc \in {"new", "prepared", "filled"}
    /\ cpass < MaxCellPasses
    /\ \E visible \in [1..Len(cband.cells) -> BOOLEAN] :
          /\ \A k \in 1..Len(cband.cells) : cband.es[k].has_print_if \/ visible[k]
          /\ cband' = IF Len(cparams) > 0
                       THEN set_printed_cells(ColumnsVisible(cband, visible), cparams[1])
                       ELSE ColumnsVisible(cband, visible)
    /\ cpc' = "prepared"
    /\ cpass' = cpass + 1
    /\ cshown' = NoShown
    /\ UNCHANGED <<cparams, outsideCells>>

FilledCells(b, ctx) ==
    [p \in 1..Len(b.printed_cells) |-> TableTextElement_fill_parameters(ctx, b.es[b.printed_cells[p]])]

\* the printed cells of the band are prepared in the context of the row r
CellsFill ==
    /\ cpc \in {"prepared", "filled"}
    /\ \E r \in 1..Len(cparams) :
          \E texts \in {FilledCells(cband, CellCtx(cparams[r]))} :
              /\ cshown' = [row |-> r, texts |-> texts]
              /\ cpc' = IF \E p \in 1..Len(texts) : texts[p].error # "" THEN "error" ELSE "filled"
    /\ UNCHANGED <<cband, cparams, cpass, outsideCells>>

NextCells == CellsPrepare \/ CellsFill

SpecCells == InitCells /\ [][NextCells]_vars

\* ------------------------------------------------------------------ properties of SpecCells
\* the reference of the cell in the context of a row
CellParameter(cell, params) == get_parameter(params, strip_parameter_name(cell.content))

\* a printed cell of the template whose content is a reference to a simple
\* array that holds at least one value in the row
IsArrayCell(cell, params) ==
    /\ cell.column_visible /\ ~cell.inside_colspan
    /\ is_parameter_name(cell.content)
    /\ CellParameter(cell, params) # NoParameter
    /\ CellParameter(cell, params).type = "simple_array"
    /\ CellParameter(cell, params).exists
    /\ ~CellParameter(cell, params).null
    /\ Len(CellParameter(cell, params).value) >= 1

\* the first position of the cell in the printed cells, 0 if it is not printed
PositionOf(printed_cells, id) ==
    IF \E p \in 1..Len(printed_cells) : printed_cells[p] = id
    THEN CHOOSE p \in 1..Len(printed_cells) :
             printed_cells[p] = id /\ \A q \in 1..(p - 1) : printed_cells[q] # id
    ELSE 0

\* n printed cells from position p on: the template cell and n-1 sibling
\* cells directly after it, at the same y and side by side
ExpandedRun(b, p, n) ==
    /\ p >= 1 /\ p + n - 1 <= Len(b.printed_cells)
    /\ \A j \in 0..(n - 1) : b.es[b.printed_cells[p + j]].simple_array_item_index = j
    /\ \A j \in 1..(n - 1) :
          /\ b.printed_cells[p + j] > Len(b.cells)
          /\ b.es[b.printed_cells[p + j]].y = b.es[b.printed_cells[p]].y
          /\ b.es[b.printed_cells[p + j]].x
               = b.es[b.printed_cells[p + j - 1]].x + b.es[b.printed_cells[p + j - 1]].width
    /\ p + n <= Len(b.printed_cells) => b.printed_cells[p + n] <= Len(b.cells)

\* the k-th of the n cells shows the k-th entry of the array
ShowsEntries(texts, p, n, ctx, param_ref) ==
    \A j \in 0..(n - 1) :
        texts[p + j] = [rv |-> get_formatted_value(ctx, param_ref.value[j + 1], param_ref, <<>>, TRUE),
                        error |-> ""]

PrintedTemplateCells(b) ==
    {k \in 1..Len(b.cells) : b.es[k].column_visible /\ ~b.es[k].inside_colspan}

ArrayCellExpanded(b, k, params, texts) ==
    /\ ExpandedRun(b, PositionOf(b.printed_cells, b.cells[k]),
                   Len(CellParameter(b.es[k], params).value))
    /\ ShowsEntries(texts, PositionOf(b.printed_cells, b.cells[k]),
                    Len(CellParameter(b.es[k], params).value),
                    CellCtx(params), CellParameter(b.es[k], params))
    /\ (\A k2 \in PrintedTemplateCells(b) : k2 = k \/ ~IsArrayCell(b.es[k2], params))
          => Len(b.printed_cells) = Cardinality(PrintedTemplateCells(b))
                                    + Len(CellParameter(b.es[k], params).value) - 1

\* C9: when the cells of a band are shown for a row, every printed cell of
\* the template whose content is exactly a reference to a simple array that
\* holds n >= 1 values in the row has n printed cells in the band: the
\* template cell and n-1 sibling cells directly after it, the k-th showing
\* the k-th entry, all at the same y and side by side; where it is the only
\* such cell the band has n-1 printed cells more than printed template cells.
C9_CellExpansion ==
    cpc \in {"filled", "error"} =>
        \A k \in 1..Len(cband.cells) :
            IsArrayCell(cband.es[k], cparams[cshown.row])
                => ArrayCellExpanded(cband, k, cparams[cshown.row], cshown.texts)

\* the same for the row in whose context the cells were set up
C9_FirstRow ==
    (cpc \in {"filled", "error"} /\ cshown.row = 1) =>
        \A k \in 1..Len(cband.cells) :
            IsArrayCell(cband.es[k], cparams[1])
                => ArrayCellExpanded(cband, k, cparams[1], cshown.texts)

\* the number of times the element id is held by the container
TimesAdded(c, id) == Cardinality({k \in DOMAIN c.doc_elements : c.doc_elements[k] = id})

\* C36: however often the table is prepared, the container of a band holds
\* each printed cell of the band once, and no other element.
C36_CellsRegisteredOnce ==
    (cpass >= 1 /\ Len(cparams) > 0) =>
        /\ \A p \in DOMAIN cband.printed_cells :
               TimesAdded(cband.container, cband.printed_cells[p]) = 1
        /\ Len(cband.container.doc_elements) = Len(cband.printed_cells)

\* ------------------------------------------------------------------ SpecFormat: parameter references in a text
\* The number parameter x, referenced in a text that is filled in with a
\* pattern.  The patterns are made of the number characters 0 # . and of the
\* literal characters $ and space, and have a number part.
ParamRef == <<"$", "{", "x", "}">>

FormatExprs ==
    {ParamRef, <<"a">> \o ParamRef \o <<"b">>, <<"$">> \o ParamRef, <<"$", "{", "y", "}">>, <<"a">>,
     <<"a", "$", "{", "x">>}

\* the option parameter_type: not given, the type of x, another type
ParameterTypes == {"none", "number", "string"}

FormatPatterns ==
    {<<>>, <<"0">>, <<"0", ".", "0">>, <<"#", ".", "0", "0">>,
     <<"$", "0">>, <<"0", " ", "$">>, <<"$", "0", ".", "0">>}

ParamPatterns == {<<>>, <<"0", ".", "0">>, <<"$", "0">>}

Locales == {"en", "de"}

CurrencySymbols == {"$", "EUR"}

\* the data of x: -2 for a data map without the name, -1 for None, a natural
\* number otherwise
NumberData == -2..MaxValue

NumberParam(pattern, data) ==
    [type |-> "number", array_item_type |-> "none", pattern |-> pattern,
     exists |-> data # -2, null |-> data = -1, value |-> IF data < 0 THEN 0 ELSE data]

FormatCtx(in) ==
    [params |-> (<<"x">> :> in.x), pattern_locale |-> in.locale,
     pattern_currency_symbol |-> in.symbol]

InitFormat ==
    /\ \E expr \in FormatExprs, pattern \in FormatPatterns, pp \in ParamPatterns,
          data \in NumberData, locale \in Locales, symbol \in CurrencySymbols,
          parameter_type \in ParameterTypes, ignore_pattern \in BOOLEAN :
          fin = [expr |-> expr, pattern |-> pattern, x |-> NumberParam(pp, data),
                 locale |-> locale, symbol |-> symbol,
                 parameter_type |-> parameter_type, ignore_pattern |-> ignore_pattern]
    /\ fpc = "new"
    /\ fout = [rv |-> <<>>, error |-> ""]
    /\ IdleOutside("format")

\* a call of Context.fill_parameters
FillParameters ==
    /\ fpc = "new"
    /\ \E r \in {fill_parameters(FormatCtx(fin), fin.expr, fin.pattern,
                                     fin.parameter_type, fin.ignore_pattern)} :
          /\ fout' = [rv |-> r.rv, error |-> r.error]
          /\ fpc' = IF r.error # "" THEN "error" ELSE "done"
    /\ UNCHANGED <<fin, outsideFormat>>

NextFormat == FillParameters

SpecFormat == InitFormat /\ [][NextFormat]_vars

\* ------------------------------------------------------------------ properties of SpecFormat
HasDollar(pattern) == \E i \in 1..Len(pattern) : pattern[i] = "$"

\* the reference to x is one the call replaces: no parameter_type is given,
\* or it is the type of x
ReplacesReference == fin.parameter_type \in {"none", fin.x.type}

\* fill_parameters was called for the text ${x} with a pattern and without
\* ignore_pattern, x holds a number
IsFormatScenario ==
    /\ fpc \in {"done", "error"}
    /\ ReplacesReference /\ ~fin.ignore_pattern
    /\ fin.expr = ParamRef
    /\ fin.pattern # <<>>
    /\ fin.x.exists /\ ~fin.x.null

\* the claim as stated: the result is the string of the formatter
C10_ExactlyFormatter ==
    IsFormatScenario =>
        fout = [rv |-> format_decimal(fin.x.value, fin.pattern, fin.locale), error |-> ""]

\* C10: for the number parameter x with the value v and a pattern p,
\* fill_parameters of the text ${x} returns the string the formatter returns
\* for (v, p, locale), in which every $ is replaced by the currency symbol of
\* the context when p holds a $; nothing else is added, removed or replaced.
C10_FormatterAndCurrency ==
    IsFormatScenario =>
        fout = [rv |-> IF HasDollar(fin.pattern)
                       THEN ReplaceDollar(format_decimal(fin.x.value, fin.pattern, fin.locale),
                                          fin.symbol)
                       ELSE format_decimal(fin.x.value, fin.pattern, fin.locale),
                error |-> ""]

C10_Witness ==
    /\ IsFormatScenario
    /\ HasDollar(fin.pattern) /\ fin.symbol = "EUR" /\ fin.locale = "de" /\ fin.x.value >= 10
    /\ fout.error = ""
    /\ fout.rv # format_decimal(fin.x.value, fin.pattern, fin.locale)

\* the text without the reference to x
RECURSIVE WithoutReference(_)
WithoutReference(expr) ==
    IF expr = <<>> THEN <<>>
    ELSE IF StartsWith(expr, ParamRef) THEN WithoutReference(SubSeq(expr, Len(ParamRef) + 1, Len(expr)))
    ELSE <<Head(expr)>> \o WithoutReference(Tail(expr))

RECURSIVE Substituted(_, _)
Substituted(expr, v) ==
    IF expr = <<>> THEN <<>>
    ELSE IF StartsWith(expr, ParamRef)
    THEN v \o Substituted(SubSeq(expr, Len(ParamRef) + 1, Len(expr)), v)
    ELSE <<Head(expr)>> \o Substituted(Tail(expr), v)

\* what stands for a reference to x in the result: the reference itself when
\* parameter_type excludes x, nothing for None, the digits of the value with
\* ignore_pattern, the formatted value otherwise
Replacement(in) ==
    IF in.parameter_type \notin {"none", in.x.type} THEN ParamRef
    ELSE IF in.x.null THEN <<>>
    ELSE IF in.ignore_pattern THEN Digits(in.x.value)
    ELSE get_formatted_value(FormatCtx(in), in.x.value, in.x, in.pattern, FALSE)

\* C40: for every text and every option, the string fill_parameters returns
\* is the text with each reference to x replaced by the value that stands
\* for it, and every character outside the references kept in its place and
\* order; a text without ${ is returned unchanged.
C40_SurroundingTextKept ==
    fpc = "done" => fout.rv = Substituted(fin.expr, Replacement(fin))

\* ------------------------------------------------------------------ SpecRender: the PDF renderer
\* DocumentPDFRenderer.render for a report without header and footer band:
\* the content band is laid out page by page, then the document is written.
RenderShapes == {s \in Placed : s.y = 0}

PageLimits == 0..MaxPageLimit

InitRender ==
    /\ \E n \in 1..MaxElems : relems \in [1..n -> RenderShapes]
    /\ \E height \in Heights :
           rband = Container_add_all(NewContainer(TRUE, height),
                                     [k \in 1..Len(relems) |-> k], 1)
    /\ rlimit \in PageLimits
    /\ rpage_count = 0
    /\ rpc = "new"
    /\ rcalls = 0
    /\ rlast = "none"
    /\ rpages = <<>>
    /\ rcleaned = <<>>
    /\ IdleOutside("render")

\* content_band.prepare and page_count = 1
RenderPrepare ==
    /\ rpc = "new"
    /\ \E r \in {Container_prepare(relems, rband)} :
          /\ relems' = r.elems
          /\ rband' = r.container
    /\ rpage_count' = 1
    /\ rpc' = "loop"
    /\ UNCHANGED <<rlimit, rcalls, rlast, rpages, rcleaned, outsideRender>>

\* variant: the limit is reached one page early
PageLimitExceeded_Early(page_limit, page_count) == page_limit # 0 /\ page_count >= page_limit

\* the test of the page limit
PageLimitExceeded(page_limit, page_count) == page_limit # 0 /\ page_count > page_limit

\* one pass of the loop of render: a page of the content band
RenderPage ==
    /\ rpc = "loop"
    /\ rcalls < MaxCalls
    /\ \E r \in {create_render_elements(relems, rband, 0, rband.height)} :
          /\ relems' = r.elems
          /\ rband' = r.container
          /\ rlast' = IF r.error # "" THEN "error"
                       ELSE IF r.complete THEN "complete" ELSE "incomplete"
          /\ rpage_count' = IF r.error = "" /\ ~r.complete THEN rpage_count + 1 ELSE rpage_count
          /\ rpc' = IF r.error # "" THEN "error"
                     ELSE IF r.complete THEN "rendered"
                     ELSE IF PageLimitExceeded(rlimit, rpage_count + 1) THEN "internal_error"
                     ELSE "loop"
    /\ rcalls' = rcalls + 1
    /\ UNCHANGED <<rlimit, rpages, rcleaned, outsideRender>>

\* Container.render_pdf: the render elements in front of the first page
\* break are drawn, with cleanup each is cleaned up after it was drawn, and
\* they are removed from the container together with the page break
FirstPageBreak(render_elements) ==
    IF \E k \in DOMAIN render_elements : render_elements[k] = PageBreakMarker
    THEN CHOOSE k \in DOMAIN render_elements :
             /\ render_elements[k] = PageBreakMarker
             /\ \A j \in 1..(k - 1) : render_elements[j] # PageBreakMarker
    ELSE Len(render_elements) + 1

Container_render_pdf(c, cleanup) ==
    [container |-> [c EXCEPT !.render_elements =
                                SubSeq(c.render_elements, FirstPageBreak(c.render_elements) + 1,
                                       Len(c.render_elements))],
     drawn |-> SubSeq(c.render_elements, 1, FirstPageBreak(c.render_elements) - 1),
     cleaned |-> IF cleanup
                 THEN SubSeq(c.render_elements, 1, FirstPageBreak(c.render_elements) - 1)
                 ELSE <<>>]

\* Container.is_finished
Container_is_finished(c) == Len(c.render_elements) = 0

\* the loop of render over the pages: add_page and render_pdf of the content
\* band, until the band is finished; the page number is the number of pages
RECURSIVE OutputLoop(_)
OutputLoop(R) ==
    IF ~Container_is_finished(R.container) \/ Len(R.pages) = 0
    THEN OutputLoop([container |-> Container_render_pdf(R.container, TRUE).container,
                     pages |-> Append(R.pages, Container_render_pdf(R.container, TRUE).drawn),
                     cleaned |-> R.cleaned \o Container_render_pdf(R.container, TRUE).cleaned])
    ELSE R

\* the rest of render: the page count is set, the pages are rendered, the
\* document is written
RenderOutput ==
    /\ rpc = "rendered"
    /\ \E r \in {OutputLoop([container |-> rband, pages |-> <<>>, cleaned |-> <<>>])} :
           /\ rband' = r.container
           /\ rpages' = r.pages
           /\ rcleaned' = r.cleaned
    /\ rpc' = "output"
    /\ UNCHANGED <<relems, rlimit, rpage_count, rcalls, rlast, outsideRender>>

NextRender == RenderPrepare \/ RenderPage \/ RenderOutput

SpecRender == InitRender /\ [][NextRender]_vars

\* ------------------------------------------------------------------ properties of SpecRender
\* C11: with a page limit L > 0 render calls create_render_elements of the
\* content band at most L times; it raises the internal error exactly when
\* the L-th call returned false, and then writes no document; a document is
\* written only after a call that returned true.
C11_PageLimit ==
    rlimit > 0 =>
        /\ rcalls <= rlimit
        /\ rpc = "internal_error" <=> (rcalls = rlimit /\ rlast = "incomplete")
        /\ rpc \in {"rendered", "output"} <=> rlast = "complete"
        /\ rlast = "complete" => rpage_count = rcalls

C11_Witness == rlimit = 2 /\ rpc = "internal_error" /\ rcalls = 2

\* C37: the output pass writes as many pages as the layout pass counted,
\* the page number of the last page is page_count, and at least one page is
\* written.
C37_PagesEqualPageCount ==
    rpc = "output" => (Len(rpages) = rpage_count /\ Len(rpages) >= 1)

\* the render elements the content band holds, without the page breaks
Allocated(c) == SelectSeq(c.render_elements, LAMBDA re : re # PageBreakMarker)

\* C39: when render has raised an error no render element of the content
\* band is left without cleanup; after a successful render every render
\* element that was drawn was cleaned up once.
C39_CleanupOnFailure ==
    /\ rpc \in {"error", "internal_error"} => Allocated(rband) = <<>>
    /\ rpc = "output" =>
           /\ Allocated(rband) = <<>>
           /\ \A p \in DOMAIN rpages : \A k \in DOMAIN rpages[p] :
                  \E j \in DOMAIN rcleaned : rcleaned[j] = rpages[p][k]

\* ------------------------------------------------------------------ SpecContext
\* A Context, the frames pushed on it and popped from it, and the names
\* looked up in it.
ParameterNames == {<<"n">>, <<"m">>}

DataSourceNames == {<<"s">>, <<"t">>}

\* the data maps of rows that are pushed
RowData == {2, 3}

\* the names that are looked up: plain, in a data source, in the root
QueryNames ==
    ParameterNames
    \cup {ds \o <<":">> \o n : ds \in DataSourceNames \cup {<<"u">>}, n \in ParameterNames}
    \cup {<<":">> \o n : n \in ParameterNames}

\* no get_parameter call has returned
NoCall == [name |-> <<>>, result |-> NotFound]

\* Context.__init__
InitContext ==
    /\ \E parameters \in {{<<"n">>}, {<<"n">>, <<"m">>}} :
           /\ xstack = <<ContextEntry(parameters, RootData, <<>>)>>
           /\ xroot = ContextEntry(parameters, RootData, <<>>)
    /\ xid = 1
    /\ xdata = [d \in {RootData} \cup RowData |-> IF d = RootData THEN 1 ELSE 0]
    /\ xlog = <<>>
    /\ xlast = [op |-> "init", error |-> "", before |-> <<>>]
    /\ xfound = NoCall
    /\ IdleOutside("context")

Taken(r) ==
    /\ xstack' = r.stack
    /\ xdata' = r.data
    /\ xid' = r.id

\* a call of push_context
PushContext ==
    /\ Len(xstack) < MaxDepth
    /\ xid < MaxContextId
    /\ \E parameters \in {{n} : n \in ParameterNames}, data \in RowData,
          data_source \in {<<>>} \cup DataSourceNames :
           /\ Taken(push_context([stack |-> xstack, data |-> xdata, id |-> xid],
                                 parameters, data, data_source))
           /\ xlog' = Append(xlog, [id |-> xdata'[data], data |-> data])
    /\ xlast' = [op |-> "push", error |-> "", before |-> <<>>]
    /\ xfound' = NoCall
    /\ UNCHANGED <<xroot, outsideContext>>

\* a call of pop_context
PopContext ==
    /\ \E r \in {pop_context([stack |-> xstack, data |-> xdata, id |-> xid])} :
           /\ Taken(r)
           /\ xlast' = [op |-> "pop", error |-> r.error, before |-> xstack]
    /\ xfound' = NoCall
    /\ UNCHANGED <<xlog, xroot, outsideContext>>

\* a call of get_parameter
GetParameter ==
    /\ \E name \in QueryNames :
           xfound' = [name |-> name, result |-> Context_get_parameter(xstack, name)]
    /\ xlast' = [op |-> "get", error |-> "", before |-> <<>>]
    /\ UNCHANGED <<xstack, xdata, xid, xlog, xroot, outsideContext>>

NextContext == PushContext \/ PopContext \/ GetParameter

SpecContext == InitContext /\ [][NextContext]_vars

\* ------------------------------------------------------------------ properties of SpecContext
\* C13: pop_context on a stack that holds only the root frame raises
\* ReportBroInternalError and leaves the stack as it was, any other
\* pop_context removes the top frame; so the stack always holds at least one
\* frame and its bottom frame is the frame created at construction.
C13_RootStays ==
    /\ Len(xstack) >= 1
    /\ xstack[1] = xroot
    /\ xlast.op = "pop" =>
           IF Len(xlast.before) = 1
           THEN xlast.error = "ReportBroInternalError" /\ xstack = xlast.before
           ELSE xlast.error = "" /\ xstack = SubSeq(xlast.before, 1, Len(xlast.before) - 1)

C13_Witness ==
    /\ xlast.op = "pop" /\ xlast.error = "ReportBroInternalError"
    /\ Len(xlog) >= 2
    /\ xstack = <<xroot>>

\* the frames up to the frame top that define the name
DefiningFrames(name, top) == {k \in 1..top : name \in xstack[k].parameters}

\* the frames whose data source is named src
SourceFrames(src) == {k \in 1..Len(xstack) : xstack[k].data_source = src}

Innermost(S) == CHOOSE k \in S : \A j \in S : j <= k

\* the name is resolved in the frames up to the frame top
ResolvedFrom(name, top) ==
    IF DefiningFrames(name, top) = {} THEN xfound.result = NotFound
    ELSE xfound.result = ParameterRef(Innermost(DefiningFrames(name, top)), name)

\* C17: get_parameter("src:name") resolves name from the innermost frame
\* whose data source is named src through the frames below it, and finds
\* nothing when no frame has that data source; ":name" resolves in the
\* root frame; a name without a prefix resolves to the innermost frame that
\* defines it.
C17_CrossScope ==
    xfound.name # <<>> =>
        IF Find(xfound.name, ":") = 0 THEN ResolvedFrom(xfound.name, Len(xstack))
        ELSE IF Find(xfound.name, ":") = 1 THEN ResolvedFrom(Tail(xfound.name), 1)
        ELSE IF SourceFrames(<<Head(xfound.name)>>) = {} THEN xfound.result = NotFound
        ELSE ResolvedFrom(SubSeq(xfound.name, 3, Len(xfound.name)),
                          Innermost(SourceFrames(<<Head(xfound.name)>>)))

C17_Witness ==
    /\ xfound.name = <<"s", ":", "m">>
    /\ Len(xstack) = 3
    /\ xstack[1].parameters = {<<"n">>, <<"m">>}
    /\ xstack[2] = ContextEntry({<<"n">>}, 2, <<"s">>)
    /\ xstack[3] = ContextEntry({<<"m">>}, 3, <<"t">>)
    /\ xfound.result = ParameterRef(1, <<"m">>)

\* C18: the root frame has the id 1, every push_context assigns an id
\* greater than every id assigned before, and the data maps of two
\* different push_context calls carry different ids.
C18_DistinctIds ==
    /\ xdata[xroot.data] = 1
    /\ \A i \in 1..Len(xlog) : xlog[i].id > 1 /\ \A j \in 1..(i - 1) : xlog[j].id < xlog[i].id
    /\ \A i, j \in 1..Len(xlog) : i # j => xdata[xlog[i].data] # xdata[xlog[j].data]

\* C18 as the code has it: the root frame has the id 1 and every
\* push_context assigns an id greater than every id assigned before, also
\* after pop_context; the data maps of two push_context calls carry the
\* same id only if they are the same map, and a map carries the id of the
\* last call that pushed it.
C18_IdsIncrease ==
    /\ xdata[xroot.data] = 1
    /\ \A i \in 1..Len(xlog) : xlog[i].id > 1 /\ \A j \in 1..(i - 1) : xlog[j].id < xlog[i].id
    /\ \A i, j \in 1..Len(xlog) :
           xlog[i].data # xlog[j].data => xdata[xlog[i].data] # xdata[xlog[j].data]
    /\ \A i \in 1..Len(xlog) :
           (\A j \in (i + 1)..Len(xlog) : xlog[j].data # xlog[i].data)
               => xdata[xlog[i].data] = xlog[i].id

C18_Witness ==
    /\ Len(xstack) = 2
    /\ xlast.op = "push"
    /\ Len(xlog) = 3
    /\ xlog[1].data = 2 /\ xlog[2].data = 3 /\ xlog[3].data = 2
    /\ xdata[2] = 4 /\ xdata[3] = 3

\* ------------------------------------------------------------------ SpecExpr
\* An expression is evaluated in a Context whose root frame defines n and
\* s_n, with or without a frame of the data source s that defines n.
Ref(name) == <<"$", "{">> \o name \o <<"}">>

Operands ==
    {Ref(<<"n">>), Ref(<<"s", ":", "n">>), Ref(<<"s", "_", "n">>), Ref(<<"y">>),
     <<"y">>, <<"1">>}

Expressions == {<<>>} \cup Operands \cup {a \o <<"=", "=">> \o b : a, b \in Operands}

ExprValues == 0..MaxExprValue

ExprStacks ==
    {<<ContextEntry({<<"n">>, <<"s", "_", "n">>},
                    (<<"n">> :> v1) @@ (<<"s", "_", "n">> :> v2), <<>>)>>
       \o (IF depth = 2 THEN <<ContextEntry({<<"n">>}, (<<"n">> :> v3), <<"s">>)>> ELSE <<>>) :
     v1 \in ExprValues, v2 \in ExprValues, v3 \in ExprValues, depth \in 1..2}

InitExpr ==
    /\ ein \in [expr : Expressions, stack : ExprStacks]
    /\ epc = "new"
    /\ eout = [rv |-> <<>>, data |-> EVAL_DEFAULT_NAMES, refs |-> <<>>]
    /\ IdleOutside("expr")

\* a call of replace_parameters with the names simple_eval starts from
ReplaceParameters ==
    /\ epc = "new"
    /\ eout' = replace_parameters(ein.stack, ein.expr, EVAL_DEFAULT_NAMES)
    /\ epc' = "replaced"
    /\ UNCHANGED <<ein, outsideExpr>>

\* a call of evaluate_expression
EvaluateExpression ==
    /\ epc = "new"
    /\ eout' = evaluate_expression(ein.stack, ein.expr)
    /\ epc' = IF eout'.error = "" THEN "done" ELSE "error"
    /\ UNCHANGED <<ein, outsideExpr>>

NextExpr == ReplaceParameters \/ EvaluateExpression

SpecExpr == InitExpr /\ [][NextExpr]_vars

\* ------------------------------------------------------------------ properties of SpecExpr
\* C14: replace_parameters gives two references with different names
\* different identifiers, and the value bound to the identifier of a
\* reference is the value of that reference.
C14_CollisionFree ==
    epc = "replaced" =>
        /\ \A i, j \in 1..Len(eout.refs) :
               eout.refs[i].name # eout.refs[j].name
                   => eout.refs[i].identifier # eout.refs[j].identifier
        /\ \A i \in 1..Len(eout.refs) :
               eout.data[eout.refs[i].identifier] = eout.refs[i].value

\* C15: evaluate_expression on an expression with a reference whose name
\* resolves to no parameter in any frame ends in an error.
C15_UnresolvedIsError ==
    (epc \in {"done", "error"} /\ \E i \in 1..Len(eout.refs) : ~eout.refs[i].found)
        => epc = "error"

\* ------------------------------------------------------------------ SpecRange
\* The root frame holds the arrays i and o, the sum t and the average a of
\* the field v of i.  Group bands set and clear row ranges on the arrays,
\* and the aggregates are read.
ItemRows == UNION {[1..n -> {(<<"v">> :> v) : v \in 0..MaxItemValue}] : n \in 1..MaxItems}

AggregateParameter(type) ==
    [type |-> type, expression |-> <<"$", "{", "i", ".", "v", "}">>, range_stack |-> <<>>]

ArrayParameter == [type |-> "array", expression |-> <<>>, range_stack |-> <<>>]

RangeParameters ==
    (<<"i">> :> ArrayParameter) @@ (<<"o">> :> ArrayParameter)
    @@ (<<"t">> :> AggregateParameter("sum")) @@ (<<"a">> :> AggregateParameter("average"))

\* the Context of the aggregate model
RangeCtx(params, data, range_count) ==
    [params |-> params, stack |-> <<ContextEntry(DOMAIN params, data, <<>>)>>,
     range_count |-> range_count]

\* the data after the aggregates were evaluated over the whole arrays
StoredAggregates(rows) ==
    (<<"t">> :> evaluate_parameter_func(
                    RangeCtx(RangeParameters, (<<"i">> :> rows), 0), RangeParameters[<<"t">>]).value)
    @@ (<<"a">> :> evaluate_parameter_func(
                       RangeCtx(RangeParameters, (<<"i">> :> rows), 0), RangeParameters[<<"a">>]).value)

NoData == [name |-> <<>>, value |-> None, exists |-> FALSE, error |-> ""]

InitRange ==
    /\ gparams = RangeParameters
    /\ \E rows \in ItemRows :
           gdata = (<<"i">> :> rows) @@ (<<"o">> :> <<(<<"v">> :> 1)>>) @@ StoredAggregates(rows)
    /\ grange_count = 0
    /\ gout = NoData
    /\ IdleOutside("range")

\* the row ranges a group band sets: rows start .. end - 1, or from start
\* to the last row
RowRanges(rows) ==
    {r \in [start : 0..(Len(rows) - 1), end : 1..Len(rows)] : r.start < r.end}
    \cup {[start |-> a, end |-> -1] : a \in 0..(Len(rows) - 1)}

\* set_parameter_range of a band with a group expression
SetParameterRange ==
    /\ Len(gparams[<<"i">>].range_stack) + Len(gparams[<<"o">>].range_stack) < MaxRanges
    /\ \E name \in {<<"i">>, <<"o">>} : \E r \in RowRanges(gdata[name]) :
           gparams' = [gparams EXCEPT ![name] = set_range(@, r.start, r.end)]
    /\ grange_count' = grange_count + 1
    /\ gout' = NoData
    /\ UNCHANGED <<gdata, outsideRange>>

\* set_parameter_range with clear
ClearParameterRange ==
    /\ \E name \in {<<"i">>, <<"o">>} :
           /\ gparams[name].range_stack # <<>>
           /\ gparams' = [gparams EXCEPT ![name] = clear_range(@)]
    /\ grange_count' = grange_count - 1
    /\ gout' = NoData
    /\ UNCHANGED <<gdata, outsideRange>>

\* get_parameter_data for an aggregate
GetParameterData ==
    /\ \E name \in {<<"t">>, <<"a">>} :
        \E r \in {get_parameter_data(RangeCtx(gparams, gdata, grange_count),
                                     Context_get_parameter(
                                         RangeCtx(gparams, gdata, grange_count).stack, name))} :
           gout' = [name |-> name, value |-> r.value, exists |-> r.exists, error |-> r.error]
    /\ UNCHANGED <<gparams, gdata, grange_count, outsideRange>>

NextRange == SetParameterRange \/ ClearParameterRange \/ GetParameterData

SpecRange == InitRange /\ [][NextRange]_vars

\* ------------------------------------------------------------------ properties of SpecRange
\* the rows of the range that is active on the array i, counted from 0
ActiveRows ==
    {k \in 0..(Len(gdata[<<"i">>]) - 1) :
        /\ get_range(gparams[<<"i">>]).start <= k
        /\ \/ get_range(gparams[<<"i">>]).end = -1
           \/ k < get_range(gparams[<<"i">>]).end}

RECURSIVE SumOfRows(_)
SumOfRows(S) ==
    IF S = {} THEN 0
    ELSE (LET k == CHOOSE k \in S : TRUE
          IN gdata[<<"i">>][k + 1][<<"v">>] + SumOfRows(S \ {k}))

ValidIdentifier(name) ==
    /\ name # <<>>
    /\ ~IsNumber(<<name[1]>>)
    /\ \A i \in 1..Len(name) : IsNumber(<<name[i]>>) \/ name[i] \in {"a", "b", "_"}

\* the loop over the parameters of the definition: Report.parameters is
\* the set of names seen so far
RECURSIVE DuplicateErrors(_, _, _)
DuplicateErrors(names, k, seen) ==
    IF k > Len(names) THEN <<>>
    ELSE (IF names[k] \in seen THEN <<"errorMsgDuplicateParameter">> ELSE <<>>)
         \o DuplicateErrors(names, k + 1, seen \cup {names[k]})

\* the tests of an element against its container
PositionErrors(elem, c) ==
    (IF elem.x < 0 THEN <<"errorMsgInvalidPosition">>
     ELSE IF elem.x + elem.width > c.width THEN <<"errorMsgInvalidSize">>
     ELSE <<>>)
    \o (IF elem.y < 0 THEN <<"errorMsgInvalidPosition">>
        ELSE IF elem.y + elem.height > c.height THEN <<"errorMsgInvalidSize">>
        ELSE <<>>)

\* process_data: the names of the parameters are tested
RECURSIVE NameErrors(_, _)
NameErrors(names, k) ==
    IF k > Len(names) THEN <<>>
    ELSE (IF ValidIdentifier(names[k]) THEN <<>> ELSE <<"errorMsgInvalidParameterName">>)
         \o NameErrors(names, k + 1)

\* Report.errors after Report.__init__
ReportErrors(def) ==
    DuplicateErrors(def.parameters, 1, {}) \o PositionErrors(def.elem, def.container)
    \o NameErrors(def.parameters, 1)

\* the element and the content band of the Report
ReportElems(def) ==
    <<[LineElement(def.elem.height, TRUE, FALSE) EXCEPT
          !.y = def.elem.y, !.bottom = def.elem.y + def.elem.height]>>

ReportBand(def) == Container_add(NewContainer(TRUE, def.container.height), 1)

\* the loop of DocumentPDFRenderer.render
RECURSIVE RenderLoop(_, _, _)
RenderStep(r, page_count, page_limit) ==
    IF r.error # "" THEN r.error
    ELSE IF r.complete THEN "output"
    ELSE IF PageLimitExceeded(page_limit, page_count + 1) THEN "ReportBroInternalError"
    ELSE RenderLoop(r, page_count + 1, page_limit)

RenderLoop(p, page_count, page_limit) ==
    RenderStep(create_render_elements(p.elems, p.container, 0, p.container.height),
               page_count, page_limit)

\* DocumentPDFRenderer.render: "output" or the error that is raised
DocumentPDFRenderer_render(es, band, page_limit) ==
    RenderLoop(Container_prepare(es, band), 1, page_limit)

ParameterNameLists ==
    UNION {[1..n -> {<<"a">>, <<"b">>, <<"1", "a">>}] : n \in 0..MaxParams}

ReportDefinitions ==
    [parameters : ParameterNameLists,
     elem : [x : {-10, 0, 60}, width : {50}, y : {-10, 0, 20}, height : {20, 60}],
     container : [width : {100}, height : Heights],
     page_limit : {MaxPageLimit}]

InitReport ==
    /\ pdef \in ReportDefinitions
    /\ perrors = <<>>
    /\ ppc = "new"
    /\ pdoc = "none"
    /\ IdleOutside("report")

\* Report.__init__; no parameter of the model is evaluated
BuildReport ==
    /\ ppc = "new"
    /\ perrors' = ReportErrors(pdef)
    /\ ppc' = "built"
    /\ UNCHANGED <<pdef, pdoc, outsideReport>>

\* Report.generate_pdf
GeneratePdf ==
    /\ ppc = "built"
    /\ \E r \in {DocumentPDFRenderer_render(ReportElems(pdef), ReportBand(pdef),
                                             pdef.page_limit)} :
           /\ ppc' = IF r = "output" THEN "pdf" ELSE r
           /\ pdoc' = IF r = "output" THEN "pdf" ELSE "none"
    /\ UNCHANGED <<pdef, perrors, outsideReport>>

\* Report.generate_xlsx: the bands are prepared and written to the
\* worksheet, the workbook is closed and returned; a line writes no cell
GenerateXlsx ==
    /\ ppc = "built"
    /\ Container_prepare(ReportElems(pdef), ReportBand(pdef)).container.sorted_elements = <<1>>
    /\ ppc' = "xlsx"
    /\ pdoc' = "xlsx"
    /\ UNCHANGED <<pdef, perrors, outsideReport>>

NextReport == BuildReport \/ GeneratePdf \/ GenerateXlsx

SpecReport == InitReport /\ [][NextReport]_vars

\* ------------------------------------------------------------------ properties of SpecReport
\* C19: when building the Report found a definition error, generate_pdf
\* and generate_xlsx produce no document.
C19_ErrorsAbort == (ppc \notin {"new", "built"} /\ perrors # <<>>) => pdoc = "none"

\* ------------------------------------------------------------------ SpecTwin
\* Two Reports are built from the same report definition and the same
\* data, at times the clock decides, and a document is generated from
\* each.  The definition has the date parameter d and a text element with
\* the content ${d}; a time is a day and a minute of that day.
NoDate == [day |-> -1, minute |-> -1]

Times == [day : 0..MaxDay, minute : 0..MaxMinute]

\* variant: a date without a value is set to the current time also when the
\* parameter is nullable
parse_parameter_value_date_AlwaysNow(nullable, value, now) ==
    IF value # NoDate THEN value
    ELSE now

\* Report.parse_parameter_value for a date parameter and a value that is a
\* date or None; now is datetime.datetime.now()
parse_parameter_value_date(nullable, value, now) ==
    IF value # NoDate THEN value
    ELSE IF ~nullable THEN now
    ELSE value

\* format_datetime with a pattern for the day or for the day and the minute
format_datetime(value, pattern) ==
    IF pattern = "d" THEN Digits(value.day)
    ELSE Digits(value.day) \o <<":">> \o Digits(value.minute)

\* the content of the text element: fill_parameters of ${d}, nothing for
\* None
DateContent(value, pattern) == IF value = NoDate THEN <<>> ELSE format_datetime(value, pattern)

\* the pages of the document and their render elements: one page with the
\* text
Document(format, value, pattern) ==
    [format |-> format, pages |-> <<<<[kind |-> "text", content |-> DateContent(value, pattern)]>>>>]

TwinDefinitions ==
    [nullable : BOOLEAN, pattern : {"d", "dm"}, data : {NoDate, [day |-> 0, minute |-> 1]}]

NotBuilt == [stage |-> "new", built_at |-> NoDate, d |-> NoDate, output |-> <<>>]

InitTwin ==
    /\ wdef \in TwinDefinitions
    /\ wclock = [day |-> 1, minute |-> 0]
    /\ wreports = [i \in 1..2 |-> NotBuilt]
    /\ IdleOutside("twin")

\* time passes
Tick ==
    /\ \E t \in Times :
           /\ t.day > wclock.day \/ (t.day = wclock.day /\ t.minute > wclock.minute)
           /\ wclock' = t
    /\ UNCHANGED <<wdef, wreports, outsideTwin>>

\* Report.__init__ of one of the two Reports
BuildTwin ==
    /\ \E i \in 1..2 :
           /\ wreports[i].stage = "new"
           /\ wreports' = [wreports EXCEPT ![i] =
                  [stage |-> "built", built_at |-> wclock,
                   d |-> parse_parameter_value_date(wdef.nullable, wdef.data, wclock),
                   output |-> <<>>]]
    /\ UNCHANGED <<wdef, wclock, outsideTwin>>

\* generate_pdf or generate_xlsx of one of the two Reports
GenerateTwin ==
    /\ \E i \in 1..2, format \in {"pdf", "xlsx"} :
           /\ wreports[i].stage = "built"
           /\ wreports' = [wreports EXCEPT ![i] =
                  [wreports[i] EXCEPT !.stage = "generated",
                       !.output = Document(format, wreports[i].d, wdef.pattern)]]
    /\ UNCHANGED <<wdef, wclock, outsideTwin>>

NextTwin == Tick \/ BuildTwin \/ GenerateTwin

SpecTwin == InitTwin /\ [][NextTwin]_vars

\* ------------------------------------------------------------------ properties of SpecTwin
BothGenerated ==
    /\ wreports[1].stage = "generated" /\ wreports[2].stage = "generated"
    /\ wreports[1].output.format = wreports[2].output.format

MaxLineCalls == 4

\* a table cell with a vertical alignment, higher than its text
AlignedCell(lines_count, valign) ==
    [TableTextElement(60, 20, lines_count, 50, <<"c">>) EXCEPT !.vertical_alignment = valign]

\* texts with one line that is higher than the lowest container
HighLineTexts ==
    { TextElement(60, 30, 1, 0, "top", TRUE, FALSE),
      TextElement(60, 30, 1, 0, "bottom", FALSE, FALSE) }

LineTexts ==
    {s \in Shapes : s.kind = "text"}
        \cup {AlignedCell(n, v) : n \in 1..2, v \in {"top", "middle", "bottom"}}
        \cup HighLineTexts

\* the position of the element in its container and of the container on the
\* page, and the height of the container, of one call
LineOffsets == {0, 10}

LineTops == {0, 30}

LineHeights == {25, 40, 60}

\* the progress state of the element
Progress(e) ==
    [line_index |-> e.line_index, space_top |-> e.space_top, space_bottom |-> e.space_bottom,
     first_render_element |-> e.first_render_element]

\* prepare of the element; the cell of a band gets the height of the band,
\* which is the total height of its highest cell
PreparedText(e) ==
    IF e.kind = "cell"
    THEN set_height(TableTextElement_prepare(e), TableTextElement_prepare(e).total_height)
    ELSE TextElement_prepare(e)

\* the indices of the lines of a render element
SliceLines(slice) ==
    IF slice = NoSlice THEN <<>>
    ELSE [j \in 1..slice.line_count |-> slice.first_line + j - 1]

InitLines ==
    /\ lelem \in LineTexts
    /\ lpc = "new"
    /\ lcalls = 0
    /\ llog = [lines |-> <<>>, before |-> Progress(lelem), slice |-> NoSlice, complete |-> FALSE,
               error |-> "", offset_y |-> 0, container_top |-> 0, available_height |-> 0]
    /\ IdleOutside("lines")

LinePrepare ==
    /\ lpc = "new"
    /\ lelem' = PreparedText(lelem)
    /\ lpc' = "ready"
    /\ llog' = [llog EXCEPT !.before = Progress(PreparedText(lelem))]
    /\ UNCHANGED <<lcalls, outsideLines>>

\* one call of the container: get_next_render_element with the space that is
\* left on the page
LineRender ==
    /\ lpc = "ready"
    /\ lcalls < MaxLineCalls
    /\ \E offset_y \in LineOffsets, container_top \in LineTops, container_height \in LineHeights :
           \E r \in {TextElement_get_next_render_element(lelem, 1, offset_y, container_top,
                                                         container_height)} :
               /\ lelem' = r.elem
               /\ lpc' = IF r.error # "" THEN "error" ELSE IF r.complete THEN "done" ELSE "ready"
               /\ llog' = [lines |-> llog.lines \o SliceLines(r.slice),
                           before |-> Progress(lelem), slice |-> r.slice,
                           complete |-> r.complete, error |-> r.error,
                           offset_y |-> offset_y, container_top |-> container_top,
                           available_height |-> container_height - offset_y]
    /\ lcalls' = lcalls + 1
    /\ UNCHANGED outsideLines

NextLines == LinePrepare \/ LineRender

SpecLines == InitLines /\ [][NextLines]_vars

LinesHandedOut ==
    (lpc \in {"ready", "done"} /\ lcalls > 0) =>
        /\ \A j \in DOMAIN llog.lines : llog.lines[j] = j - 1
        /\ Len(llog.lines) = lelem.line_index
        /\ lelem.line_index <= lelem.lines_count
        /\ llog.complete <=> (/\ lelem.line_index = lelem.lines_count
                              /\ lelem.space_top = 0 /\ lelem.space_bottom = 0)
        /\ lpc = "done" => Len(llog.lines) = lelem.lines_count

LineIndexGrows == lpc = "ready" => lelem'.line_index >= lelem.line_index

\* C26: between prepare and completion the render elements of a text hand
\* out the lines 0, 1, 2, ... in order, every line once, whatever the
\* available heights are; line_index never decreases; the element reports
\* complete exactly when line_index = lines_count and no space is left above
\* or below the text.
C26_LinesExactlyOnce == []LinesHandedOut /\ [][LineIndexGrows]_vars

\* a text of several lines that was complete after more than one render
\* element with lines
C26_Witness ==
    /\ lpc = "done" /\ lelem.lines_count >= 2
    /\ llog.slice # NoSlice /\ llog.slice.first_line > 0 /\ llog.slice.line_count > 0

\* C27: a call that returns no render element and is not complete leaves
\* line_index, space_top, space_bottom and first_render_element as they were.
C27_RefusalChangesNothing ==
    (lpc = "ready" /\ lcalls > 0 /\ llog.slice = NoSlice) => Progress(lelem) = llog.before

\* the last call was the first attempt of a text that must stay on one page
FirstAttemptSamePage ==
    /\ lpc # "new" /\ lcalls > 0
    /\ lelem.always_print_on_same_page /\ llog.before.first_render_element

AtTopOfPage == llog.offset_y = 0 /\ llog.container_top = 0

\* the height the first line needs, with the padding that belongs to it
FirstLineHeight(e) ==
    e.text_lines[1] + e.padding_top + (IF e.lines_count = 1 THEN e.padding_bottom ELSE 0)

\* C31: the first attempt of a text that must stay on one page and does not
\* fit in the remaining height returns nothing and raises no error, unless
\* the text is at offset 0 of a container at the top of the page; there, if
\* not even the first line fits, the attempt raises errorMsgInvalidSize.
C31_SamePageText ==
    FirstAttemptSamePage =>
        /\ (lelem.total_height > llog.available_height /\ ~AtTopOfPage) =>
               (lpc = "ready" /\ llog.slice = NoSlice /\ llog.error = "")
        /\ (AtTopOfPage /\ lelem.lines_count > 0
               /\ FirstLineHeight(lelem) > llog.available_height) =>
               (lpc = "error" /\ llog.error = "errorMsgInvalidSize")

\* ------------------------------------------------------------------ SpecBand: one band, call by call
MaxBandCalls == 3

BandOffsets == {0, 20}

BandContainerHeights == {10, 30, 50}

\* the bands of a table: a header, a content band of one line and one whose
\* cell grows to two lines, with and without alwaysPrintOnSamePage
TableBands ==
    { set_printed_cells(b, NoParams) :
        b \in { TableBandElement(1, "header", 20, <<HeaderCell>>, FALSE, FALSE, NoFlags) }
              \cup { TableBandElement(3, "content", 20, <<cell>>, FALSE, FALSE,
                                      [NoFlags EXCEPT !.always_print_on_same_page = a]) :
                         cell \in ContentCells, a \in BOOLEAN } }

\* the elements of the container a section band is linked to
SectionBandContents ==
    { <<TextElement(20, 20, 1, 0, "top", FALSE, FALSE)>>,
      <<TextElement(20, 20, 3, 0, "top", FALSE, FALSE)>>,
      <<LineElement(10, TRUE, FALSE)>>,
      <<LineElement(10, TRUE, FALSE), [PageBreakElement EXCEPT !.y = 10, !.bottom = 10],
        [LineElement(10, TRUE, FALSE) EXCEPT !.y = 10, !.bottom = 20]>> }

SectionBands ==
    { SectionBandElement(1, "header", 20, es, NoSectionFlags) : es \in SectionBandContents }
        \cup { SectionBandElement(2, "content", 20, es,
                                  [NoSectionFlags EXCEPT !.always_print_on_same_page = a,
                                                         !.shrink_to_content_height = s]) :
                   es \in SectionBandContents, a \in BOOLEAN, s \in BOOLEAN }

IsSectionBand(b) == "shrink_to_content_height" \in DOMAIN b

InitBand ==
    /\ bband \in TableBands \cup SectionBands
    /\ bpc = "ready"
    /\ bcalls = 0
    /\ blog = [offset_y |-> 0, available_height |-> 0, error |-> "", add_error |-> "",
               before |-> bband, slice |-> NoSlice]
    /\ IdleOutside("band")

\* the step of TableElement.get_next_render_element for one band:
\* create_render_elements and add_band on the render element of the page
TableBandRender ==
    /\ bpc = "ready" /\ bcalls < MaxBandCalls /\ ~IsSectionBand(bband)
    /\ \E offset_y \in BandOffsets, container_height \in BandContainerHeights :
           /\ offset_y <= container_height
           /\ \E r \in {TableBandElement_create_render_elements(bband, offset_y, 0,
                                                                container_height)} :
                  /\ bband' = r.band
                  /\ bpc' = IF r.error # "" THEN "error" ELSE "ready"
                  /\ blog' = [offset_y |-> offset_y,
                              available_height |-> container_height - offset_y,
                              error |-> r.error, add_error |-> "", before |-> bband,
                              slice |-> IF r.error # "" THEN NoSlice
                                        ELSE add_band(TableRenderElement(offset_y), r.band, 0)]
    /\ bcalls' = bcalls + 1
    /\ UNCHANGED outsideBand

\* the step of SectionElement.get_next_render_element for one band:
\* create_render_elements and add_section_band(band)
SectionBandRender ==
    /\ bpc = "ready" /\ bcalls < MaxBandCalls /\ IsSectionBand(bband)
    /\ \E offset_y \in BandOffsets, container_height \in BandContainerHeights :
           /\ offset_y <= container_height
           /\ \E r \in {SectionBandElement_create_render_elements(bband, offset_y, 0,
                                                                  container_height)} :
              \E a \in {Call_add_section_band(SectionRenderElement(offset_y), <<r.band>>)} :
                  /\ bband' = r.band
                  /\ bpc' = IF r.error # "" \/ a.error # "" THEN "error" ELSE "ready"
                  /\ blog' = [offset_y |-> offset_y,
                              available_height |-> container_height - offset_y,
                              error |-> r.error,
                              add_error |-> IF r.error # "" THEN "" ELSE a.error,
                              before |-> bband,
                              slice |-> IF r.error # "" \/ a.error # "" THEN NoSlice ELSE a.re]
    /\ bcalls' = bcalls + 1
    /\ UNCHANGED outsideBand

NextBand == TableBandRender \/ SectionBandRender

SpecBand == InitBand /\ [][NextBand]_vars

\* the errors an element or a page break of the band raises before the band
\* has decided whether it is complete
RaisedInside == {"errorMsgInvalidSize", "errorMsgSectionBandPageBreakNotAllowed"}

MaxFrameCalls == 4

\* the elements inside the frame: one line of text, a text of three lines
\* that grows, two lines with a gap
FrameContents ==
    { <<TextElement(20, 20, 1, 0, "top", FALSE, FALSE)>>,
      <<TextElement(20, 20, 3, 0, "top", FALSE, FALSE)>>,
      <<LineElement(10, TRUE, FALSE), [LineElement(10, TRUE, FALSE) EXCEPT !.y = 30, !.bottom = 40]>> }

FrameBorders == { BorderStyle(FALSE, FALSE, 0), BorderStyle(TRUE, TRUE, 2) }

Frames ==
    { FrameElement(h, es, b, s) :
        h \in {30, 50}, es \in FrameContents, b \in FrameBorders, s \in BOOLEAN }

\* the offset of the frame on the page of its first call: at the top, or
\* below an element above it
FrameOffsets == {0, 20}

FramePageHeights == {40, 60}

InitFrame ==
    /\ frelem \in Frames
    /\ frpc = "new"
    /\ frcalls = 0
    /\ frlog = <<>>
    /\ IdleOutside("frame")

\* Container.prepare of the container the frame is in
FramePrepare ==
    /\ frpc = "new"
    /\ frelem' = FrameElement_prepare(frelem)
    /\ frpc' = "ready"
    /\ UNCHANGED <<frcalls, frlog, outsideFrame>>

\* one page: the container calls get_next_render_element of the frame.  On
\* the pages behind the first call the frame has no predecessor and is not a
\* first render element, Container.get_offset_y returns 0.
FrameRender ==
    /\ frpc = "ready" /\ frcalls < MaxFrameCalls
    /\ \E offset_y \in (IF frcalls = 0 THEN FrameOffsets ELSE {0}),
          container_height \in FramePageHeights :
           \E r \in {FrameElement_get_next_render_element(frelem, offset_y, 0, container_height)} :
               /\ frelem' = r.frame
               /\ frpc' = IF r.error # "" THEN "error" ELSE IF r.complete THEN "done" ELSE "ready"
               /\ frlog' = Append(frlog, [offset_y |-> offset_y,
                                          available_height |-> container_height - offset_y,
                                          slice |-> r.slice, complete |-> r.complete,
                                          error |-> r.error,
                                          layout_complete |-> r.layout_complete,
                                          needed_height |-> r.needed_height])
    /\ frcalls' = frcalls + 1
    /\ UNCHANGED outsideFrame

NextFrame == FramePrepare \/ FrameRender

SpecFrame == InitFrame /\ [][NextFrame]_vars

SliceType(entry) == IF entry.slice = NoSlice THEN "none" ELSE entry.slice.render_element_type

\* C33: the first call of a frame returns one complete slice when the
\* container laid out all elements and the needed height fits below the
\* offset; otherwise at offset 0 it returns a first partial slice and is not
\* complete; otherwise it returns nothing and the next call returns the first
\* slice of the frame.  A slice that is a part of a frame (first, between,
\* last) only follows a first part that was emitted at offset 0.
C33_FramePlacement ==
    (Len(frlog) > 0 /\ frlog[1].error = "") =>
        /\ IF frlog[1].layout_complete /\ frlog[1].needed_height <= frlog[1].available_height
           THEN SliceType(frlog[1]) = "complete" /\ frlog[1].complete
           ELSE IF frlog[1].offset_y = 0
           THEN SliceType(frlog[1]) = "first" /\ ~frlog[1].complete
           ELSE /\ SliceType(frlog[1]) = "none" /\ ~frlog[1].complete
                /\ Len(frlog) > 1 /\ frlog[2].error = "" =>
                       SliceType(frlog[2]) \in {"first", "complete"}
        /\ \A k \in DOMAIN frlog :
               SliceType(frlog[k]) \in {"first", "between", "last"} =>
                   \E j \in 1..k : /\ SliceType(frlog[j]) = "first" /\ frlog[j].offset_y = 0
                                   /\ \A i \in 1..(j - 1) : SliceType(frlog[i]) = "none"

\* a frame that did not fit below offset 20 emitted nothing, then it was
\* split over the next pages
C33_Witness ==
    /\ Len(frlog) > 2 /\ frlog[1].offset_y # 0 /\ SliceType(frlog[1]) = "none"
    /\ SliceType(frlog[2]) = "first" /\ SliceType(frlog[Len(frlog)]) = "last"

\* ------------------------------------------------------------------ SpecSection: a section and its rows
MaxSectionRows == 2
MaxSectionCalls == 3

SectionHeaders ==
    {NoBand} \cup { SectionBandElement(1, "header", 20,
                                       <<TextElement(20, 20, 1, 0, "top", FALSE, FALSE)>>,
                                       [NoSectionFlags EXCEPT !.repeat_header = r]) :
                        r \in BOOLEAN }

SectionFooters ==
    {NoBand, SectionBandElement(3, "footer", 20, <<LineElement(10, TRUE, FALSE)>>, NoSectionFlags)}

\* the content band: one line of text, a text that grows, a line, and two
\* lines with a manual page break between them
SectionContents ==
    { b \in SectionBands : b.band_type = "content" /\ ~b.shrink_to_content_height }

Sections ==
    { SectionElement(h, c, f) : h \in SectionHeaders, c \in SectionContents, f \in SectionFooters }

SectionPageHeights == {30, 60}

\* the rows of the data source: the references to their data maps
SectionRowsOf(n) == [k \in 1..n |-> k + 1]

InitSection ==
    /\ section \in Sections
    /\ sctx = [stack |-> <<ContextEntry({}, RootData, <<>>)>>,
               data |-> [d \in {RootData} \cup {SectionRowsOf(MaxSectionRows + 1)[k] :
                                                    k \in 1..(MaxSectionRows + 1)} |->
                            IF d = RootData THEN 1 ELSE 0],
               id |-> 1]
    /\ spc = "new"
    /\ scalls = 0
    /\ slog = [op |-> "init", depth |-> 1, row_index |-> -1, page_break_row |-> None,
               slice |-> NoSlice, complete |-> FALSE, error |-> ""]
    /\ IdleOutside("section")

\* Container.prepare of the band the section is in: for the PDF and the
\* spreadsheet, or only to verify
SectionPrepare ==
    /\ spc = "new"
    /\ \E n \in 0..MaxSectionRows, only_verify \in BOOLEAN :
           \E r \in {SectionElement_prepare(section, SectionRowsOf(n), sctx, only_verify)} :
               /\ section' = r.section
               /\ sctx' = r.ctx
               /\ spc' = IF only_verify THEN "verified" ELSE "ready"
               /\ slog' = [op |-> "prepare", depth |-> Len(sctx.stack),
                           row_index |-> section.row_index, page_break_row |-> None,
                           slice |-> NoSlice, complete |-> FALSE, error |-> ""]
    /\ UNCHANGED <<scalls, outsideSection>>

\* one page: the container calls get_next_render_element of the section
SectionRender ==
    /\ spc = "ready" /\ scalls < MaxSectionCalls
    /\ slog.op # "sheet"
    /\ \E container_height \in SectionPageHeights :
           \E r \in {SectionElement_get_next_render_element(section, sctx, 0, 0,
                                                            container_height)} :
               /\ section' = r.s
               /\ sctx' = r.ctx
               /\ spc' = IF r.error # "" THEN "error" ELSE IF r.complete THEN "done" ELSE "ready"
               /\ slog' = [op |-> "render", depth |-> Len(sctx.stack),
                           row_index |-> section.row_index,
                           page_break_row |-> r.page_break_row,
                           slice |-> IF r.error # "" THEN NoSlice ELSE r.re,
                           complete |-> r.complete, error |-> r.error]
    /\ scalls' = scalls + 1
    /\ UNCHANGED outsideSection

\* the spreadsheet: Container.render_spreadsheet calls render_spreadsheet of
\* the section
SectionSpreadsheet ==
    /\ spc = "ready" /\ scalls = 0
    /\ \E r \in {SectionElement_render_spreadsheet(section, sctx)} :
           /\ section' = r.section
           /\ sctx' = r.ctx
    /\ spc' = "sheet"
    /\ slog' = [op |-> "sheet", depth |-> Len(sctx.stack), row_index |-> section.row_index,
                page_break_row |-> None, slice |-> NoSlice, complete |-> TRUE, error |-> ""]
    /\ UNCHANGED <<scalls, outsideSection>>

NextSection == SectionPrepare \/ SectionRender \/ SectionSpreadsheet

SpecSection == InitSection /\ [][NextSection]_vars

ContentContainerIsReset ==
    /\ ~section.content.container.manual_page_break
    /\ section.content.container.first_element_offset_y = 0
    /\ section.content.container.max_bottom = 0
    /\ section.content.container.render_bottom = 0
    /\ \A id \in DOMAIN section.content.es :
           /\ section.content.es[id].first_render_element
           /\ ~section.content.es[id].rendering_complete

\* C34: a get_next_render_element call of a section in which the container
\* of the content band set manual_page_break at row r returns without an
\* error and is not complete, the container of the content band is reset and
\* the row index is r.
C34_PageBreakInRow ==
    (slog.op = "render" /\ slog.page_break_row # None) =>
        /\ slog.error = "" /\ ~slog.complete
        /\ ContentContainerIsReset
        /\ section.row_index = slog.page_break_row

\* C35: prepare, get_next_render_element and render_spreadsheet of a section
\* leave the stack of the Context as deep as they found it.
C35_BalancedScopes ==
    (slog.op \in {"prepare", "render", "sheet"} /\ slog.error = "") =>
        Len(sctx.stack) = slog.depth

\* ------------------------------------------------------------------ SpecBands: header and footer of a Report
BandDisplay == {"never", "always", "not_on_first_page"}

DocumentData == [header : BOOLEAN, headerDisplay : BandDisplay,
                 footer : BOOLEAN, footerDisplay : BandDisplay]

\* DocumentProperties.__init__: the display of a band that is switched off
\* is never
DocumentProperties(data) ==
    [header |-> data.header,
     header_display |-> IF data.header THEN data.headerDisplay ELSE "never",
     footer |-> data.footer,
     footer_display |-> IF data.footer THEN data.footerDisplay ELSE "never"]

\* DocumentXLSXRenderer.render: the bands given to render_band
DocumentXLSXRenderer_render(props) ==
    (IF props.header_display # "never" THEN <<"header">> ELSE <<>>)
    \o <<"content">>
    \o (IF props.header_display # "never" THEN <<"footer">> ELSE <<>>)

\* Report.verify: the bands that are prepared with only_verify
Report_verify(props) ==
    (IF props.header_display # "never" THEN <<"header">> ELSE <<>>)
    \o <<"content">>
    \o (IF props.header_display # "never" THEN <<"footer">> ELSE <<>>)

InitBands ==
    /\ ddata \in DocumentData
    /\ dprops = [header |-> FALSE, header_display |-> "never",
                 footer |-> FALSE, footer_display |-> "never"]
    /\ dpc = "new"
    /\ dlog = <<>>
    /\ IdleOutside("bands")

\* Report.__init__
BuildBands ==
    /\ dpc = "new"
    /\ dprops' = DocumentProperties(ddata)
    /\ dpc' = "built"
    /\ UNCHANGED <<ddata, dlog, outsideBands>>

\* Report.verify
VerifyBands ==
    /\ dpc = "built"
    /\ dlog' = Report_verify(dprops)
    /\ dpc' = "verified"
    /\ UNCHANGED <<ddata, dprops, outsideBands>>

\* Report.generate_xlsx
XlsxBands ==
    /\ dpc \in {"built", "verified"}
    /\ dlog' = DocumentXLSXRenderer_render(dprops)
    /\ dpc' = IF dpc = "built" THEN "xlsx" ELSE "verified_xlsx"
    /\ UNCHANGED <<ddata, dprops, outsideBands>>

NextBands == BuildBands \/ VerifyBands \/ XlsxBands

SpecBands == InitBands /\ [][NextBands]_vars

\* C38: Report.verify and the spreadsheet driver process the header band
\* exactly when header_display is not never and the footer band exactly when
\* footer_display is not never.
C38_BandsBySetting ==
    dpc \in {"verified", "xlsx", "verified_xlsx"} =>
        /\ InSeq(dlog, "header") <=> dprops.header_display # "never"
        /\ InSeq(dlog, "footer") <=> dprops.footer_display # "never"

=============================================================================
